---- MODULE Spec2Model ----
(***************************************************************************)
(* HireReady 2.0: the feature-extraction pipeline of                       *)
(* services/feature_analyzer.py.  Resume text, a GitHub profile and a      *)
(* LeetCode profile are turned into a 64-field feature vector, merged and  *)
(* validated by build_complete_feature_vector.                             *)
(*                                                                         *)
(* Python str values are TLA+ strings; a Python dict is a function whose   *)
(* DOMAIN is its key set; a Python number is a record [twice, int]: twice  *)
(* is two times its value (so that halves such as 1.5 are exact) and int   *)
(* tells whether isinstance(value, int) holds.                             *)
(***************************************************************************)
EXTENDS Integers, Sequences, FiniteSets, TLC

\* ------------------------------------------------------------------------
\* Python values
\* ------------------------------------------------------------------------

\* an int n
PyInt(n) == [twice |-> 2 * n, int |-> TRUE]

\* a float of value t / 2 (1.5 is PyFloat(3), 2.0 is PyFloat(4))
PyFloat(t) == [twice |-> t, int |-> FALSE]

\* None / JSON null
PyNone == [none |-> TRUE]

\* the value of an int
IntOf(v) == v.twice \div 2

\* a + b : the sum is an int only when both operands are
PyAdd(a, b) == [twice |-> a.twice + b.twice, int |-> a.int /\ b.int]

\* a * k for an int literal k
PyTimes(a, k) == [twice |-> a.twice * k, int |-> a.int]

\* max(a, b) : the first argument unless the second is strictly greater
PyMax(a, b) == IF b.twice > a.twice THEN b ELSE a

\* int(a) for a >= 0 : truncation
PyTrunc(a) == PyInt(a.twice \div 2)

\* isinstance(v, int)
IsInstanceInt(v) == v /= PyNone /\ v.int

Min2(a, b) == IF a < b THEN a ELSE b

Max2(a, b) == IF a > b THEN a ELSE b

SetMin(S) == CHOOSE x \in S : \A y \in S : x <= y

SetMax(S) == CHOOSE x \in S : \A y \in S : x >= y

Range(seq) == {seq[i] : i \in 1..Len(seq)}

\* d[k] = v on a dict: the key is added when absent
DictSet(d, k, v) == [x \in (DOMAIN d) \cup {k} |-> IF x = k THEN v ELSE d[x]]

\* ------------------------------------------------------------------------
\* 1. FEATURE_COLUMNS
\* ------------------------------------------------------------------------

FEATURE_COLUMNS ==
    << "Python", "Java", "C++", "C", "JavaScript", "Go", "Rust", "TypeScript",
       "SQL", "Node", "Spring", "Django", "Flask", "FastAPI", "Express",
       "React", "Angular", "Vue", "NextJS", "HTML", "CSS",
       "TensorFlow", "PyTorch",
       "AWS", "Azure", "GCP",
       "Docker", "Kubernetes", "CI/CD",
       "Scikit", "Pandas", "NLP", "ComputerVision", "LLM", "PromptEngineering",
       "EthicalHacking", "Cryptography", "NetworkSecurity",
       "Android", "Flutter", "ReactNative",
       "OOPS", "SystemDesign", "DBMS", "OS",
       "internship_backend", "internship_ai", "internship_cloud",
       "internship_security", "internship_mobile", "internship_data",
       "num_backend_projects", "num_ai_projects", "num_mobile_projects",
       "num_cloud_projects", "num_security_projects",
       "github_total_repos", "github_total_commits",
       "open_source_contribution_score",
       "leetcode_easy", "leetcode_medium", "leetcode_hard",
       "leetcode_total", "leetcode_contest_rating" >>

\* set(FEATURE_COLUMNS)
Columns == Range(FEATURE_COLUMNS)

\* ------------------------------------------------------------------------
\* 2. initialize_feature_vector
\* ------------------------------------------------------------------------

initialize_feature_vector == [col \in Columns |-> PyInt(0)]

\* ------------------------------------------------------------------------
\* Strings: str.lower, str.strip, slicing, the "in" operator
\* ------------------------------------------------------------------------

CharAt(s, k) == SubSeq(s, k, k)

\* s[start:end] for 0 <= start, end <= len(s)
Slice(s, start, end) == SubSeq(s, start + 1, end)

\* whitespace as matched by \s and removed by str.strip()
WS == {" ", "\n", "\t"}

\* characters matched by \w in lower-cased text
WordChars ==
    {"a", "b", "c", "d", "e", "f", "g", "h", "i", "j", "k", "l", "m",
     "n", "o", "p", "q", "r", "s", "t", "u", "v", "w", "x", "y", "z",
     "0", "1", "2", "3", "4", "5", "6", "7", "8", "9", "_"}

UpperToLower ==
    [c \in {"A", "B", "C", "D", "E", "F", "G", "H", "I", "J", "K", "L", "M",
            "N", "O", "P", "Q", "R", "S", "T", "U", "V", "W", "X", "Y", "Z"} |->
        CASE c = "A" -> "a" [] c = "B" -> "b" [] c = "C" -> "c" [] c = "D" -> "d"
          [] c = "E" -> "e" [] c = "F" -> "f" [] c = "G" -> "g" [] c = "H" -> "h"
          [] c = "I" -> "i" [] c = "J" -> "j" [] c = "K" -> "k" [] c = "L" -> "l"
          [] c = "M" -> "m" [] c = "N" -> "n" [] c = "O" -> "o" [] c = "P" -> "p"
          [] c = "Q" -> "q" [] c = "R" -> "r" [] c = "S" -> "s" [] c = "T" -> "t"
          [] c = "U" -> "u" [] c = "V" -> "v" [] c = "W" -> "w" [] c = "X" -> "x"
          [] c = "Y" -> "y" [] c = "Z" -> "z"]

RECURSIVE Lower(_)
\* str.lower(), by halves to keep the recursion shallow
Lower(s) ==
    IF Len(s) = 0 THEN s
    ELSE IF Len(s) = 1
         THEN (IF s \in DOMAIN UpperToLower THEN UpperToLower[s] ELSE s)
         ELSE Lower(SubSeq(s, 1, Len(s) \div 2))
                  \o Lower(SubSeq(s, Len(s) \div 2 + 1, Len(s)))

\* not s.strip()
IsBlank(s) == \A k \in 1..Len(s) : CharAt(s, k) \in WS

\* sub in s
Contains(s, sub) ==
    \E k \in 0..(Len(s) - Len(sub)) : Slice(s, k, k + Len(sub)) = sub

\* s.lower().startswith(prefix)
StartsWith(s, prefix) ==
    Len(s) >= Len(prefix) /\ Slice(s, 0, Len(prefix)) = prefix

\* ------------------------------------------------------------------------
\* Regular expressions (the subset of re used by the pattern tables).
\* A pattern is a sequence of elements; a position k means "k characters
\* consumed", so the next character is CharAt(s, k + 1).
\* ------------------------------------------------------------------------

\* a run of literal characters
Lit(str) == [t |-> "lit", s |-> str]

\* \b
WB == [t |-> "wb"]

\* a character class with quantifier q: "1" (exactly one), "?", "*", "+"
Cls(cs, q) == [t |-> "cls", cs |-> cs, q |-> q]

\* (?!a1|a2|...)
NotAhead(alts) == [t |-> "nla", alts |-> alts]

\* (?:sub)?
OptGroup(sub) == [t |-> "opt", sub |-> sub]

IsWordAt(s, k) == k >= 1 /\ k <= Len(s) /\ CharAt(s, k) \in WordChars

Boundary(s, k) == IsWordAt(s, k) /= IsWordAt(s, k + 1)

\* length of the longest run of characters of cs starting at position k
RunLen(cs, s, k) ==
    (CHOOSE j \in k..Len(s) :
        /\ \A i \in (k + 1)..j : CharAt(s, i) \in cs
        /\ (j = Len(s) \/ CharAt(s, j + 1) \notin cs)) - k

Repeats(q, run) ==
    CASE q = "1" -> IF run >= 1 THEN {1} ELSE {}
      [] q = "?" -> 0..Min2(run, 1)
      [] q = "*" -> 0..run
      [] q = "+" -> 1..run

RECURSIVE Ends(_, _, _, _)
\* the positions at which elements i.. of pattern p can finish when the
\* match starts at position k of s
Ends(p, i, s, k) ==
    IF i > Len(p) THEN {k}
    ELSE LET e == p[i] IN
         CASE e.t = "lit" ->
                IF k + Len(e.s) <= Len(s) /\ Slice(s, k, k + Len(e.s)) = e.s
                THEN Ends(p, i + 1, s, k + Len(e.s)) ELSE {}
           [] e.t = "wb" ->
                IF Boundary(s, k) THEN Ends(p, i + 1, s, k) ELSE {}
           [] e.t = "cls" ->
                UNION {Ends(p, i + 1, s, k + n) :
                           n \in Repeats(e.q, RunLen(e.cs, s, k))}
           [] e.t = "nla" ->
                IF \E a \in 1..Len(e.alts) : Ends(e.alts[a], 1, s, k) /= {}
                THEN {} ELSE Ends(p, i + 1, s, k)
           [] e.t = "opt" ->
                Ends(p, i + 1, s, k)
                    \cup UNION {Ends(p, i + 1, s, j) : j \in Ends(e.sub, 1, s, k)}

MatchesAt(p, s, k) == Ends(p, 1, s, k) /= {}

\* re.search(p, s) is not None
Search(p, s) == \E k \in 0..Len(s) : MatchesAt(p, s, k)

\* end of the match re picks at k: all quantifiers are greedy
MatchEnd(p, s, k) == SetMax(Ends(p, 1, s, k))

RECURSIVE ScanMatches(_, _, _, _)
ScanMatches(p, s, starts, from) ==
    LET cand == {k \in starts : k >= from} IN
    IF cand = {} THEN << >>
    ELSE LET k == SetMin(cand)
             e == MatchEnd(p, s, k)
         IN  << [start |-> k, end |-> e] >>
                 \o ScanMatches(p, s, starts, IF e > k THEN e ELSE k + 1)

\* re.finditer(p, s): the leftmost non-overlapping matches, in order
FindIter(p, s) ==
    ScanMatches(p, s, {k \in 0..Len(s) : MatchesAt(p, s, k)}, 0)

\* len(re.findall(p, s))
FindAllCount(p, s) == Len(FindIter(p, s))

\* ------------------------------------------------------------------------
\* 3. extract_resume_features: the pattern tables
\* ------------------------------------------------------------------------

_SKILL_PATTERNS ==
    << [name |-> "Python", patterns |-> <<
        <<WB, Lit("python"), WB>>>>],
       [name |-> "Java", patterns |-> <<
        <<WB, Lit("java"), WB, NotAhead(<<<<Cls(WS, "*"), Lit("script")>>>>)>>>>],
       [name |-> "C++", patterns |-> <<
        <<WB, Lit("c++"), WB>>,
        <<WB, Lit("cpp"), WB>>>>],
       [name |-> "C", patterns |-> <<
        <<WB, Lit("c"), WB, NotAhead(<<<<Lit("++")>>, <<Lit("#")>>, <<Lit("sharp")>>>>)>>>>],
       [name |-> "JavaScript", patterns |-> <<
        <<WB, Lit("javascript"), WB>>,
        <<WB, Lit("js"), WB>>>>],
       [name |-> "Go", patterns |-> <<
        <<WB, Lit("golang"), WB>>,
        <<WB, Lit("go"), WB, OptGroup(<<Cls(WS, "+"), Lit("lang")>>), WB>>>>],
       [name |-> "Rust", patterns |-> <<
        <<WB, Lit("rust"), WB>>>>],
       [name |-> "TypeScript", patterns |-> <<
        <<WB, Lit("typescript"), WB>>,
        <<WB, Lit("ts"), WB>>>>],
       [name |-> "SQL", patterns |-> <<
        <<WB, Lit("sql"), WB>>,
        <<WB, Lit("mysql"), WB>>,
        <<WB, Lit("postgresql"), WB>>,
        <<WB, Lit("postgres"), WB>>>>],
       [name |-> "Node", patterns |-> <<
        <<WB, Lit("node"), Cls({"."}, "?"), Lit("js"), WB>>,
        <<WB, Lit("node"), WB>>>>],
       [name |-> "Spring", patterns |-> <<
        <<WB, Lit("spring"), WB, OptGroup(<<Cls(WS, "*"), Lit("boot")>>)>>>>],
       [name |-> "Django", patterns |-> <<
        <<WB, Lit("django"), WB>>>>],
       [name |-> "Flask", patterns |-> <<
        <<WB, Lit("flask"), WB>>>>],
       [name |-> "FastAPI", patterns |-> <<
        <<WB, Lit("fastapi"), WB>>,
        <<WB, Lit("fast"), Cls(WS, "*"), Lit("api"), WB>>>>],
       [name |-> "Express", patterns |-> <<
        <<WB, Lit("express"), Cls({"."}, "?"), Lit("js"), WB>>,
        <<WB, Lit("express"), WB>>>>],
       [name |-> "React", patterns |-> <<
        <<WB, Lit("react"), Cls({"."}, "?"), Lit("js"), WB>>,
        <<WB, Lit("react"), WB, NotAhead(<<<<Cls(WS, "*"), Lit("native")>>>>)>>>>],
       [name |-> "Angular", patterns |-> <<
        <<WB, Lit("angular"), WB>>>>],
       [name |-> "Vue", patterns |-> <<
        <<WB, Lit("vue"), Cls({"."}, "?"), Lit("js"), WB>>,
        <<WB, Lit("vue"), WB>>>>],
       [name |-> "NextJS", patterns |-> <<
        <<WB, Lit("next"), Cls({"."}, "?"), Lit("js"), WB>>,
        <<WB, Lit("nextjs"), WB>>>>],
       [name |-> "HTML", patterns |-> <<
        <<WB, Lit("html"), Cls({"5"}, "?"), WB>>>>],
       [name |-> "CSS", patterns |-> <<
        <<WB, Lit("css"), Cls({"3"}, "?"), WB>>,
        <<WB, Lit("sass"), WB>>,
        <<WB, Lit("scss"), WB>>>>],
       [name |-> "TensorFlow", patterns |-> <<
        <<WB, Lit("tensorflow"), WB>>,
        <<WB, Lit("tf"), WB>>>>],
       [name |-> "PyTorch", patterns |-> <<
        <<WB, Lit("pytorch"), WB>>>>],
       [name |-> "Scikit", patterns |-> <<
        <<WB, Lit("scikit"), Cls(WS \cup {"-"}, "?"), Lit("learn"), WB>>,
        <<WB, Lit("sklearn"), WB>>,
        <<WB, Lit("scikit"), WB>>>>],
       [name |-> "Pandas", patterns |-> <<
        <<WB, Lit("pandas"), WB>>>>],
       [name |-> "NLP", patterns |-> <<
        <<WB, Lit("nlp"), WB>>,
        <<WB, Lit("natural"), Cls(WS, "+"), Lit("language"), Cls(WS, "+"), Lit("processing"), WB>>>>],
       [name |-> "ComputerVision", patterns |-> <<
        <<WB, Lit("computer"), Cls(WS, "*"), Lit("vision"), WB>>,
        <<WB, Lit("cv"), WB>>,
        <<WB, Lit("opencv"), WB>>>>],
       [name |-> "LLM", patterns |-> <<
        <<WB, Lit("llm"), WB>>,
        <<WB, Lit("large"), Cls(WS, "+"), Lit("language"), Cls(WS, "+"), Lit("model"), WB>>>>],
       [name |-> "PromptEngineering", patterns |-> <<
        <<WB, Lit("prompt"), Cls(WS, "*"), Lit("engineering"), WB>>>>],
       [name |-> "AWS", patterns |-> <<
        <<WB, Lit("aws"), WB>>,
        <<WB, Lit("amazon"), Cls(WS, "+"), Lit("web"), Cls(WS, "+"), Lit("services"), WB>>>>],
       [name |-> "Azure", patterns |-> <<
        <<WB, Lit("azure"), WB>>>>],
       [name |-> "GCP", patterns |-> <<
        <<WB, Lit("gcp"), WB>>,
        <<WB, Lit("google"), Cls(WS, "+"), Lit("cloud"), WB>>>>],
       [name |-> "Docker", patterns |-> <<
        <<WB, Lit("docker"), WB>>>>],
       [name |-> "Kubernetes", patterns |-> <<
        <<WB, Lit("kubernetes"), WB>>,
        <<WB, Lit("k8s"), WB>>>>],
       [name |-> "CI/CD", patterns |-> <<
        <<WB, Lit("ci"), Cls(WS, "*"), Lit("/"), Cls(WS, "*"), Lit("cd"), WB>>,
        <<WB, Lit("cicd"), WB>>,
        <<WB, Lit("continuous"), Cls(WS, "+"), Lit("integration"), WB>>,
        <<WB, Lit("continuous"), Cls(WS, "+"), Lit("deployment"), WB>>,
        <<WB, Lit("continuous"), Cls(WS, "+"), Lit("delivery"), WB>>,
        <<WB, Lit("github"), Cls(WS, "+"), Lit("actions"), WB>>,
        <<WB, Lit("jenkins"), WB>>>>],
       [name |-> "EthicalHacking", patterns |-> <<
        <<WB, Lit("ethical"), Cls(WS, "*"), Lit("hacking"), WB>>,
        <<WB, Lit("penetration"), Cls(WS, "*"), Lit("testing"), WB>>,
        <<WB, Lit("pen"), Cls(WS, "*"), Lit("test"), WB>>>>],
       [name |-> "Cryptography", patterns |-> <<
        <<WB, Lit("cryptography"), WB>>,
        <<WB, Lit("crypto"), WB>>>>],
       [name |-> "NetworkSecurity", patterns |-> <<
        <<WB, Lit("network"), Cls(WS, "*"), Lit("security"), WB>>,
        <<WB, Lit("firewall"), WB>>,
        <<WB, Lit("intrusion"), Cls(WS, "+"), Lit("detection"), WB>>>>],
       [name |-> "Android", patterns |-> <<
        <<WB, Lit("android"), WB>>>>],
       [name |-> "Flutter", patterns |-> <<
        <<WB, Lit("flutter"), WB>>>>],
       [name |-> "ReactNative", patterns |-> <<
        <<WB, Lit("react"), Cls(WS, "*"), Lit("native"), WB>>>>],
       [name |-> "OOPS", patterns |-> <<
        <<WB, Lit("oops"), WB>>,
        <<WB, Lit("object"), Cls(WS \cup {"-"}, "1"), Lit("oriented"), WB>>,
        <<WB, Lit("oop"), WB>>>>],
       [name |-> "SystemDesign", patterns |-> <<
        <<WB, Lit("system"), Cls(WS, "*"), Lit("design"), WB>>,
        <<WB, Lit("hld"), WB>>,
        <<WB, Lit("lld"), WB>>>>],
       [name |-> "DBMS", patterns |-> <<
        <<WB, Lit("dbms"), WB>>,
        <<WB, Lit("database"), Cls(WS, "+"), Lit("management"), WB>>,
        <<WB, Lit("rdbms"), WB>>>>],
       [name |-> "OS", patterns |-> <<
        <<WB, Lit("operating"), Cls(WS, "*"), Lit("system"), WB>>>>] >>

_INTERNSHIP_PATTERNS ==
    << [name |-> "internship_backend", patterns |-> <<
        <<WB, Lit("backend"), WB>>,
        <<WB, Lit("back"), Cls(WS \cup {"-"}, "1"), Lit("end"), WB>>,
        <<WB, Lit("server"), Cls(WS \cup {"-"}, "1"), Lit("side"), WB>>,
        <<WB, Lit("full"), Cls(WS \cup {"-"}, "?"), Lit("stack"), WB>>,
        <<WB, Lit("web"), Cls(WS, "+"), Lit("develop"), WB>>>>],
       [name |-> "internship_ai", patterns |-> <<
        <<WB, Lit("ai"), WB>>,
        <<WB, Lit("artificial"), Cls(WS, "+"), Lit("intelligence"), WB>>,
        <<WB, Lit("machine"), Cls(WS, "+"), Lit("learning"), WB>>,
        <<WB, Lit("ml"), WB>>,
        <<WB, Lit("data"), Cls(WS, "+"), Lit("science"), WB>>,
        <<WB, Lit("deep"), Cls(WS, "+"), Lit("learning"), WB>>>>],
       [name |-> "internship_cloud", patterns |-> <<
        <<WB, Lit("cloud"), WB>>,
        <<WB, Lit("devops"), WB>>,
        <<WB, Lit("infrastructure"), WB>>,
        <<WB, Lit("sre"), WB>>>>],
       [name |-> "internship_security", patterns |-> <<
        <<WB, Lit("security"), WB>>,
        <<WB, Lit("cyber"), WB>>,
        <<WB, Lit("soc"), WB>>>>],
       [name |-> "internship_mobile", patterns |-> <<
        <<WB, Lit("mobile"), WB>>,
        <<WB, Lit("android"), WB>>,
        <<WB, Lit("ios"), WB>>,
        <<WB, Lit("flutter"), WB>>,
        <<WB, Lit("react"), Cls(WS, "*"), Lit("native"), WB>>>>],
       [name |-> "internship_data", patterns |-> <<
        <<WB, Lit("data"), Cls(WS, "+"), Lit("engineer"), WB>>,
        <<WB, Lit("data"), Cls(WS, "+"), Lit("analy"), WB>>,
        <<WB, Lit("etl"), WB>>,
        <<WB, Lit("data"), Cls(WS, "+"), Lit("pipeline"), WB>>,
        <<WB, Lit("big"), Cls(WS, "*"), Lit("data"), WB>>>>] >>

_PROJECT_PATTERNS ==
    << [name |-> "num_backend_projects", patterns |-> <<
        <<WB, Lit("backend"), WB>>,
        <<WB, Lit("rest"), Cls(WS, "*"), Lit("api"), WB>>,
        <<WB, Lit("web"), Cls(WS, "+"), Lit("app"), WB>>,
        <<WB, Lit("server"), WB>>,
        <<WB, Lit("microservice"), WB>>,
        <<WB, Lit("crud"), WB>>>>],
       [name |-> "num_ai_projects", patterns |-> <<
        <<WB, Lit("machine"), Cls(WS, "+"), Lit("learning"), WB>>,
        <<WB, Lit("ml"), WB>>,
        <<WB, Lit("ai"), WB>>,
        <<WB, Lit("deep"), Cls(WS, "+"), Lit("learning"), WB>>,
        <<WB, Lit("neural"), Cls(WS, "+"), Lit("net"), WB>>,
        <<WB, Lit("nlp"), WB>>,
        <<WB, Lit("computer"), Cls(WS, "*"), Lit("vision"), WB>>,
        <<WB, Lit("classifi"), WB>>,
        <<WB, Lit("predict"), WB>>>>],
       [name |-> "num_mobile_projects", patterns |-> <<
        <<WB, Lit("mobile"), Cls(WS, "+"), Lit("app"), WB>>,
        <<WB, Lit("android"), Cls(WS, "+"), Lit("app"), WB>>,
        <<WB, Lit("ios"), Cls(WS, "+"), Lit("app"), WB>>,
        <<WB, Lit("flutter"), WB>>,
        <<WB, Lit("react"), Cls(WS, "*"), Lit("native"), WB>>>>],
       [name |-> "num_cloud_projects", patterns |-> <<
        <<WB, Lit("cloud"), WB>>,
        <<WB, Lit("aws"), WB>>,
        <<WB, Lit("azure"), WB>>,
        <<WB, Lit("gcp"), WB>>,
        <<WB, Lit("deployed"), Cls(WS, "+"), Lit("on"), WB>>,
        <<WB, Lit("terraform"), WB>>,
        <<WB, Lit("docker"), WB>>,
        <<WB, Lit("kubernetes"), WB>>>>],
       [name |-> "num_security_projects", patterns |-> <<
        <<WB, Lit("security"), WB>>,
        <<WB, Lit("ethical"), Cls(WS, "*"), Lit("hack"), WB>>,
        <<WB, Lit("vulnerability"), WB>>,
        <<WB, Lit("penetration"), WB>>,
        <<WB, Lit("cryptograph"), WB>>>>] >>


\* characters taken before and after an "intern" / "project" occurrence
WINDOW_BEFORE == 100

WINDOW_AFTER == 100

\* characters taken after an "experience" / "projects" header (fallback)
FALLBACK_AHEAD == 500

\* upper limit of a project count
PROJECT_CAP == 10

InternAnchor == << WB, Lit("intern"), WB >>

ExperienceAnchor == << WB, Lit("experience"), WB >>

ProjectAnchor == << WB, Lit("project"), WB >>

ProjectsAnchor == << WB, Lit("projects"), WB >>

RECURSIVE AroundWindows(_, _, _)
\* for idx in indices: context += lower_text[max(0, idx-100):min(len, idx+100)] + " "
AroundWindows(s, ms, i) ==
    IF i > Len(ms) THEN ""
    ELSE Slice(s, Max2(0, ms[i].start - WINDOW_BEFORE),
                  Min2(Len(s), ms[i].start + WINDOW_AFTER))
             \o " " \o AroundWindows(s, ms, i + 1)

RECURSIVE AfterWindows(_, _, _)
\* for m in matches: context += lower_text[m.end():min(len, m.end()+500)] + " "
AfterWindows(s, ms, i) ==
    IF i > Len(ms) THEN ""
    ELSE Slice(s, ms[i].end, Min2(Len(s), ms[i].end + FALLBACK_AHEAD))
             \o " " \o AfterWindows(s, ms, i + 1)

\* a context that adds the "experience" windows to the "intern" windows
InternContextWithBoth(lower_text) ==
    AroundWindows(lower_text, FindIter(InternAnchor, lower_text), 1)
        \o AfterWindows(lower_text, FindIter(ExperienceAnchor, lower_text), 1)

\* the text in which internship-domain patterns are searched
InternContext(lower_text) ==
    LET around == AroundWindows(lower_text, FindIter(InternAnchor, lower_text), 1) IN
    IF around = "" /\ Contains(lower_text, "experience")
    THEN AfterWindows(lower_text, FindIter(ExperienceAnchor, lower_text), 1)
    ELSE around

\* the text in which project-domain patterns are counted
ProjectContext(lower_text) ==
    LET around == AroundWindows(lower_text, FindIter(ProjectAnchor, lower_text), 1) IN
    IF around = "" /\ Contains(lower_text, "projects")
    THEN AfterWindows(lower_text, FindIter(ProjectsAnchor, lower_text), 1)
    ELSE around

\* any(re.search(pattern, s) for pattern in patterns)
MatchesAny(patterns, s) == \E i \in 1..Len(patterns) : Search(patterns[i], s)

RECURSIVE SumCounts(_, _, _)
\* count += len(re.findall(pattern, project_context)) over the patterns
SumCounts(patterns, s, i) ==
    IF i > Len(patterns) THEN 0
    ELSE FindAllCount(patterns[i], s) + SumCounts(patterns, s, i + 1)

RECURSIVE CountMatchingPatterns(_, _, _, _)
\* a detection without the break: features[name] += 1 for every pattern found
CountMatchingPatterns(features, table, s, i) ==
    IF i > Len(table) THEN features
    ELSE LET found == {j \in 1..Len(table[i].patterns) : Search(table[i].patterns[j], s)}
         IN  CountMatchingPatterns(
                 IF found /= {}
                 THEN DictSet(features, table[i].name, PyInt(Cardinality(found)))
                 ELSE features,
                 table, s, i + 1)

RECURSIVE DetectFlags(_, _, _, _)
\* for name, patterns in table.items(): features[name] = 1 on the first match
DetectFlags(features, table, s, i) ==
    IF i > Len(table) THEN features
    ELSE DetectFlags(IF MatchesAny(table[i].patterns, s)
                     THEN DictSet(features, table[i].name, PyInt(1))
                     ELSE features,
                     table, s, i + 1)

\* a count without the cap
UncappedCount(count) == count

\* min(count, 10)
CapCount(count) == Min2(count, PROJECT_CAP)

RECURSIVE CountProjects(_, _, _, _)
\* for feature, patterns in _PROJECT_PATTERNS.items(): features[feature] = min(count, 10)
CountProjects(features, table, ctx, i) ==
    IF i > Len(table) THEN features
    ELSE CountProjects(DictSet(features, table[i].name,
                               PyInt(CapCount(SumCounts(table[i].patterns, ctx, 1)))),
                       table, ctx, i + 1)

extract_resume_features(text) ==
    IF IsBlank(text) THEN initialize_feature_vector
    ELSE LET lower_text == Lower(text)
             skills  == DetectFlags(initialize_feature_vector, _SKILL_PATTERNS,
                                    lower_text, 1)
             interns == DetectFlags(skills, _INTERNSHIP_PATTERNS,
                                    InternContext(lower_text), 1)
         IN  CountProjects(interns, _PROJECT_PATTERNS,
                           ProjectContext(lower_text), 1)

\* ------------------------------------------------------------------------
\* 4. extract_github_features
\* ------------------------------------------------------------------------

_LANGUAGE_TO_CATEGORY ==
    [language \in {"Java", "Go", "Ruby", "PHP", "Elixir", "Scala", "Rust", "C#"} |-> "num_backend_projects"] @@
    [language \in {"Jupyter Notebook", "R"} |-> "num_ai_projects"] @@
    [language \in {"Kotlin", "Swift", "Dart", "Objective-C"} |-> "num_mobile_projects"] @@
    [language \in {"HCL", "Dockerfile"} |-> "num_cloud_projects"] @@
    [language \in {"Assembly"} |-> "num_security_projects"]

_AMBIGUOUS_LANGUAGES == {"Python", "JavaScript", "TypeScript", "C", "C++", "Shell"}

_REPO_HINT_PATTERNS ==
    << [category |-> "num_ai_projects", alts |-> <<
            <<Lit("ml")>>, 
            <<Lit("machine"), Cls(WS \cup {"-"}, "?"), Lit("learn")>>, 
            <<Lit("deep"), Cls(WS \cup {"-"}, "?"), Lit("learn")>>, 
            <<Lit("neural")>>, <<Lit("nlp")>>, <<Lit("cv")>>, 
            <<Lit("vision")>>, <<Lit("ai")>>, <<Lit("tensor")>>, 
            <<Lit("torch")>>, <<Lit("model")>>>>],
       [category |-> "num_mobile_projects", alts |-> <<
            <<Lit("mobile")>>, <<Lit("android")>>, <<Lit("ios")>>, 
            <<Lit("flutter")>>, 
            <<Lit("react"), Cls(WS \cup {"-"}, "?"), Lit("native")>>, 
            <<Lit("app")>>>>],
       [category |-> "num_cloud_projects", alts |-> <<
            <<Lit("cloud")>>, <<Lit("aws")>>, <<Lit("azure")>>, 
            <<Lit("gcp")>>, <<Lit("terraform")>>, <<Lit("infra")>>, 
            <<Lit("deploy")>>, <<Lit("devops")>>, <<Lit("k8s")>>, 
            <<Lit("kubernetes")>>>>],
       [category |-> "num_security_projects", alts |-> <<
            <<Lit("secur")>>, <<Lit("hack")>>, <<Lit("pentest")>>, 
            <<Lit("vuln")>>, <<Lit("crypt")>>, <<Lit("firewall")>>>>] >>

\* JSON null in a repository's "language" field
NullLanguage == "<null>"

\* s.strip()
Strip(s) ==
    IF IsBlank(s) THEN ""
    ELSE LET keep == {j \in 1..Len(s) : CharAt(s, j) \notin WS}
         IN  SubSeq(s, SetMin(keep), SetMax(keep))

\* s.rstrip("/")
RStripSlash(s) ==
    LET keep == {j \in 1..Len(s) : CharAt(s, j) /= "/"}
    IN  IF keep = {} THEN "" ELSE SubSeq(s, 1, SetMax(keep))

\* s.split("/")[0]
FirstSegment(s) ==
    LET slashes == {j \in 1..Len(s) : CharAt(s, j) = "/"}
    IN  IF slashes = {} THEN s ELSE SubSeq(s, 1, SetMin(slashes) - 1)

RECURSIVE StripPrefix(_, _, _)
\* for prefix in prefixes: if raw.lower().startswith(prefix): raw = raw[len(prefix):]; break
StripPrefix(raw, prefixes, i) ==
    IF i > Len(prefixes) THEN raw
    ELSE IF StartsWith(Lower(raw), prefixes[i])
         THEN Slice(raw, Len(prefixes[i]), Len(raw))
         ELSE StripPrefix(raw, prefixes, i + 1)

\* a cleaning that forgets raw.split("/")[0]
CleanWithoutSplit(raw) ==
    Strip(StripPrefix(RStripSlash(Strip(raw)),
        << "https://github.com/", "http://github.com/", "github.com/" >>, 1))

_clean_github_username(raw) ==
    Strip(FirstSegment(StripPrefix(RStripSlash(Strip(raw)),
        << "https://github.com/", "http://github.com/", "github.com/" >>, 1)))

_clean_leetcode_username(raw) ==
    Strip(FirstSegment(StripPrefix(RStripSlash(Strip(raw)),
        << "https://leetcode.com/u/", "https://leetcode.com/",
           "http://leetcode.com/u/", "http://leetcode.com/",
           "leetcode.com/u/", "leetcode.com/" >>, 1)))

\* page after which _fetch_all_repos stops
MAX_PAGES == 10

\* number of most recently pushed repositories whose commits are looked up
TOP_REPOS == 10

\* def rank_roles(user_features, top_k=3)
DEFAULT_TOP_K == 3

\* a ceiling that lets one more page through
LimitOffByOne(page) == page > MAX_PAGES + 1

\* if page > 10: break
PageLimitReached(page) == page > MAX_PAGES

\* a check that forgets whitespace-only input
UsernameEmpty(username) == username = ""

\* if not username or not username.strip()
UsernameMissing(username) == IsBlank(username)

\* f"{repo.get('name', '')} {repo.get('description') or ''}".lower()
NameDesc(repo) == Lower(repo.name \o " " \o repo.description)

RECURSIVE HintCategory(_, _)
\* the category of the first hint pattern found in name_desc, "" when none is
HintCategory(name_desc, i) ==
    IF i > Len(_REPO_HINT_PATTERNS) THEN ""
    ELSE IF MatchesAny(_REPO_HINT_PATTERNS[i].alts, name_desc)
         THEN _REPO_HINT_PATTERNS[i].category
         ELSE HintCategory(name_desc, i + 1)

\* a classification that lets the hint patterns override the language table
RepoCategoryHintsFirst(repo) ==
    LET hint == HintCategory(NameDesc(repo), 1) IN
    IF hint /= "" THEN hint
    ELSE IF repo.language \in DOMAIN _LANGUAGE_TO_CATEGORY
         THEN _LANGUAGE_TO_CATEGORY[repo.language]
         ELSE IF repo.language \in _AMBIGUOUS_LANGUAGES
              THEN "num_backend_projects" ELSE ""

\* the project column a repository is counted in, "" when it is counted in none
RepoCategory(repo) ==
    IF repo.language /= NullLanguage /\ repo.language /= ""
           /\ repo.language \in DOMAIN _LANGUAGE_TO_CATEGORY
    THEN _LANGUAGE_TO_CATEGORY[repo.language]
    ELSE IF repo.language \in _AMBIGUOUS_LANGUAGES \/ repo.language = NullLanguage
         THEN LET hint == HintCategory(NameDesc(repo), 1) IN
              IF hint /= "" THEN hint
              ELSE IF repo.language \in _AMBIGUOUS_LANGUAGES
                   THEN "num_backend_projects" ELSE ""
         ELSE ""

RECURSIVE ClassifyAll(_, _, _)
\* for repo in repos: features[category] += 1
ClassifyAll(features, repos, i) ==
    IF i > Len(repos) THEN features
    ELSE LET cat == RepoCategory(repos[i]) IN
         ClassifyAll(IF cat = "" THEN features
                     ELSE DictSet(features, cat, PyAdd(features[cat], PyInt(1))),
                     repos, i + 1)

RECURSIVE SumField(_, _, _)
\* total_stars += stars / total_forks += forks over the repositories
SumField(repos, field, i) ==
    IF i > Len(repos) THEN PyInt(0)
    ELSE PyAdd(IF field = "stars" THEN repos[i].stars ELSE repos[i].forks,
               SumField(repos, field, i + 1))

NonForkCount(repos) == Cardinality({i \in 1..Len(repos) : ~repos[i].fork})

\* total_stars += None raises TypeError
HasNullCount(repos) ==
    \E i \in 1..Len(repos) : repos[i].stars = PyNone \/ repos[i].forks = PyNone

\* sorted(repos, key=pushed_at, reverse=True): stable, most recent first
SortedByPushed(repos) ==
    LET rank(i) == 1 + Cardinality({j \in 1..Len(repos) :
                        \/ repos[j].pushed_at > repos[i].pushed_at
                        \/ (repos[j].pushed_at = repos[i].pushed_at /\ j < i)})
    IN  [p \in 1..Len(repos) |-> repos[CHOOSE i \in 1..Len(repos) : rank(i) = p]]

\* [:10]
TopRepos(repos) == SubSeq(repos, 1, Min2(Len(repos), TOP_REPOS))

\* the response of GET /repos/{full_name}/commits?author=..&per_page=1 for a
\* repository in which the author has c commits: a Link header naming the
\* last page when there is more than one page, and a body of at most one item
CommitsResponse(c) == [last_page |-> IF c > 1 THEN c ELSE 0, items |-> Min2(c, 1)]

\* _fetch_repo_commit_count: 0 on any exception, else the last page number
\* of the Link header, else the length of the body
_fetch_repo_commit_count(ok, resp) ==
    IF ~ok THEN 0
    ELSE IF resp.last_page > 0 THEN resp.last_page ELSE resp.items

\* if len(repos) > 10 and len(sorted_repos) > 0:
\*     total_commits = int(total_commits / len(sorted_repos) * len(repos))
\* The float product is the exact quotient for the repository counts of
\* Accounts (for 15 repositories and more it can be one less).
\* the pairs << len(repos), total_commits >>, up to 20 repositories and 200
\* commits, for which the double (total_commits / 10) * len(repos) lies just
\* below its exact value, an integer, so that int() gives one less
TruncatedBelow == { << 15, 82 >>, << 15, 164 >> }

\* int((total_commits / len(sorted_repos)) * len(repos)) in double arithmetic
\* when there are more than 10 repositories; len(sorted_repos) is then 10
Extrapolate(total_commits, n_sorted, n_repos) ==
    IF n_repos > TOP_REPOS /\ n_sorted > 0
    THEN (total_commits * n_repos) \div n_sorted
             - (IF << n_repos, total_commits >> \in TruncatedBelow THEN 1 ELSE 0)
    ELSE total_commits

\* non_fork_count + (total_stars * 2) + (total_forks * 3) + int(total_commits / 10)
ContributionScore(repos, total_commits) ==
    PyAdd(PyAdd(PyAdd(PyInt(NonForkCount(repos)),
                      PyTimes(SumField(repos, "stars", 1), 2)),
                PyTimes(SumField(repos, "forks", 1), 3)),
          PyInt(total_commits \div 10))

\* a fetcher that keeps the repositories listed before the failing page
FeaturesOfPartialListing(features, all_repos) ==
    DictSet(features, "github_total_repos", PyInt(Len(all_repos)))

\* except requests.exceptions.RequestException: return features
FeaturesOnRequestException(features, all_repos) == features

\* ------------------------------------------------------------------------
\* 5. extract_leetcode_features
\* ------------------------------------------------------------------------

RECURSIVE ParseAcStats(_, _, _)
\* for entry in ac_stats: features[difficulty_map[difficulty]] = int(count)
ParseAcStats(features, ac_stats, i) ==
    IF i > Len(ac_stats) THEN features
    ELSE ParseAcStats(
            IF ac_stats[i].difficulty \in {"Easy", "Medium", "Hard"}
            THEN DictSet(features,
                         CASE ac_stats[i].difficulty = "Easy" -> "leetcode_easy"
                           [] ac_stats[i].difficulty = "Medium" -> "leetcode_medium"
                           [] ac_stats[i].difficulty = "Hard" -> "leetcode_hard",
                         PyTrunc(ac_stats[i].count))
            ELSE features,
            ac_stats, i + 1)

\* a parse that stores the contest rating as it was reported
ParseLeetcodeRawRating(resp) ==
    LET counts == ParseAcStats(initialize_feature_vector, resp.acSubmissionNum, 1)
        total  == DictSet(counts, "leetcode_total",
                      PyAdd(PyAdd(counts["leetcode_easy"], counts["leetcode_medium"]),
                            counts["leetcode_hard"]))
    IN  IF resp.userContestRanking /= PyNone
            /\ resp.userContestRanking.rating /= PyNone
        THEN DictSet(total, "leetcode_contest_rating", resp.userContestRanking.rating)
        ELSE total

\* lines 597-620: the features of a response whose matchedUser is present
ParseLeetcode(resp) ==
    LET counts == ParseAcStats(initialize_feature_vector, resp.acSubmissionNum, 1)
        total  == DictSet(counts, "leetcode_total",
                      PyAdd(PyAdd(counts["leetcode_easy"], counts["leetcode_medium"]),
                            counts["leetcode_hard"]))
    IN  IF resp.userContestRanking /= PyNone
            /\ resp.userContestRanking.rating /= PyNone
            /\ resp.userContestRanking.rating.twice /= 0
        THEN DictSet(total, "leetcode_contest_rating",
                     PyTrunc(resp.userContestRanking.rating))
        ELSE total

\* ------------------------------------------------------------------------
\* 6. build_complete_feature_vector
\* ------------------------------------------------------------------------

\* feature_vector[key] = value for the keys already in feature_vector
MergeResume(fv, resume) ==
    [key \in DOMAIN fv |-> IF key \in DOMAIN resume THEN resume[key] ELSE fv[key]]

\* a merge that adds the GitHub metrics only
IsGithubMetric(key) ==
    \/ StartsWith(key, "github_")
    \/ key = "open_source_contribution_score"

\* key.startswith("num_") or key.startswith("github_")
\*     or key == "open_source_contribution_score"
IsAdditive(key) ==
    \/ StartsWith(key, "num_")
    \/ StartsWith(key, "github_")
    \/ key = "open_source_contribution_score"

\* += for the additive keys, max for the others
MergeGithub(fv, github) ==
    [key \in DOMAIN fv |->
        IF key \in DOMAIN github
        THEN IF IsAdditive(key) THEN PyAdd(fv[key], github[key])
                                ELSE PyMax(fv[key], github[key])
        ELSE fv[key]]

\* max for every key
MergeLeetcode(fv, leetcode) ==
    [key \in DOMAIN fv |->
        IF key \in DOMAIN leetcode THEN PyMax(fv[key], leetcode[key]) ELSE fv[key]]

\* a validation of the key set alone
ValidateKeysOnly(feature_vector) ==
    IF DOMAIN feature_vector = Columns THEN "ok" ELSE "ValueError"

\* "ok" when the function returns, "ValueError" when it raises
_validate_feature_vector(feature_vector) ==
    LET expected == Columns
        actual   == DOMAIN feature_vector
        missing  == expected \ actual
        extra    == actual \ expected
    IN  IF missing /= {} \/ extra /= {} THEN "ValueError"
        ELSE IF Cardinality(actual) /= Len(FEATURE_COLUMNS) THEN "ValueError"
        ELSE IF \E key \in actual : ~IsInstanceInt(feature_vector[key])
             THEN "ValueError"
             ELSE "ok"

\* ------------------------------------------------------------------------
\* The external world: the GitHub account and the LeetCode profile of the
\* one existing user, and the inputs of a request
\* ------------------------------------------------------------------------

\* the handle under which GitHub and LeetCode know the candidate
KnownUser == "octocat"

\* pushed_at is an ISO-8601 timestamp compared as a string; it is modelled by
\* a number with the same order.  commits is the number of commits of the
\* user in the repository.
Repo(name, description, language, fork, stars, forks, pushed_at, commits) ==
    [name |-> name, description |-> description, language |-> language,
     fork |-> fork, stars |-> stars, forks |-> forks, pushed_at |-> pushed_at,
     full_name |-> IF name = "" THEN "" ELSE KnownUser \o "/" \o name,
     commits |-> commits]

RepoJava == Repo("billing-service", "", "Java", FALSE, PyInt(2), PyInt(1), 5, 12)

RepoMl == Repo("Digits", "Deep Learning classifier", "Python", FALSE, PyInt(0), PyInt(0), 7, 1)

RepoPlain == Repo("dotfiles", "", "Shell", TRUE, PyInt(0), PyInt(0), 5, 0)

RepoNoLanguage == Repo("notes", "", NullLanguage, FALSE, PyInt(1), PyInt(0), 2, 3)

RepoHtml == Repo("homepage", "my site", "HTML", FALSE, PyInt(0), PyInt(0), 9, 4)

RepoUnnamed == Repo("", "terraform modules", NullLanguage, FALSE, PyInt(0), PyInt(0), 1, 2)

RepoFloatStars == Repo("kernel", "", "C", FALSE, PyFloat(3), PyInt(0), 4, 2)

RepoNullStars == Repo("mirror", "", "Go", FALSE, PyNone, PyInt(0), 4, 2)

\* a GitHub account: the pages of its repository listing; an endless account
\* answers every page with its first page
Account(pages, endless) == [pages |-> pages, endless |-> endless]

Accounts ==
    { Account(<< >>, FALSE),
      Account(<< <<RepoJava, RepoMl>> >>, FALSE),
      Account(<< <<RepoPlain, RepoHtml>>, <<RepoNoLanguage, RepoUnnamed>> >>, FALSE),
      Account(<< <<RepoJava, RepoMl, RepoPlain, RepoNoLanguage, RepoHtml, RepoUnnamed,
                   RepoJava, RepoMl, RepoPlain, RepoNoLanguage, RepoHtml, RepoJava>> >>,
              FALSE),
      Account(<< <<RepoJava>> >>, TRUE),
      Account(<< <<RepoMl, RepoFloatStars>> >>, FALSE),
      Account(<< <<RepoNullStars>> >>, FALSE) }

\* the body of GET /users/{username}/repos?page=..
ServePage(account, page) ==
    IF account.endless THEN account.pages[1]
    ELSE IF page <= Len(account.pages) THEN account.pages[page] ELSE << >>

\* the answers of the LeetCode GraphQL endpoint
LeetcodeAnswer(kind, acSubmissionNum, userContestRanking) ==
    [kind |-> kind, acSubmissionNum |-> acSubmissionNum,
     userContestRanking |-> userContestRanking]

AcStats(easy, medium, hard) ==
    << [difficulty |-> "All", count |-> PyInt(easy + medium + hard)],
       [difficulty |-> "Easy", count |-> PyInt(easy)],
       [difficulty |-> "Medium", count |-> PyInt(medium)],
       [difficulty |-> "Hard", count |-> PyInt(hard)] >>

\* kind: "error" (the request raises RequestException), "unmatched"
\* (matchedUser is null), "malformed" (submitStatsGlobal is null, on which
\* .get raises AttributeError), "matched"
LeetcodeResponses(username) ==
    { LeetcodeAnswer("error", << >>, PyNone) }
      \cup (IF username = KnownUser
            THEN { LeetcodeAnswer("matched", AcStats(3, 2, 1), PyNone),
                   LeetcodeAnswer("matched", AcStats(3, 2, 1), [rating |-> PyFloat(3001)]),
                   LeetcodeAnswer("matched", AcStats(0, 0, 0), [rating |-> PyNone]),
                   LeetcodeAnswer("malformed", << >>, PyNone) }
            ELSE { LeetcodeAnswer("unmatched", << >>, PyNone) })

\* at most this many requests of one call fail with a network or HTTP error
MaxFailures == 2

BuildResumeTexts ==
    { "", " \n",
      "Experienced in Java, Spring Boot, and Docker.",
      "FastAPI (Fast API) on Docker. Cloud intern, then security intern.",
      "Project: Built a REST API backend server.\nProject: Developed a mobile app using Flutter." }

GithubInputs == { "", "  ", "https://github.com/octocat/", "github.com/ghost" }

LeetcodeInputs == { "", " ", "leetcode.com/u/octocat/", "ghost" }

\* ------------------------------------------------------------------------
\* State
\* ------------------------------------------------------------------------

VARIABLES
    resume_text,        \* argument of build_complete_feature_vector
    github_username,    \* argument
    leetcode_username,  \* argument
    github_account,     \* what GitHub holds for KnownUser
    pc,                 \* position in the call
    feature_vector,     \* the vector being merged
    resume_features,    \* result of extract_resume_features
    github_features,    \* result of extract_github_features
    leetcode_features,  \* result of extract_leetcode_features
    gh,                 \* locals of extract_github_features
    requests,           \* the network requests issued so far, with their outcome
    outcome,            \* "running", "returned", or the exception raised
    prev_features,      \* result of the previous extract_resume_features call
    history,            \* the call completed before this one, if any
    raw_score,          \* model.predict(df)[0], in hundredths
    readiness,          \* the calibrated score, in hundredths
    category,           \* the readiness category
    top_k,              \* argument of rank_roles
    top_roles,          \* result of rank_roles: << role, score in hundredths >> pairs
    endpoint,           \* the entry point of main.py serving the request, "" if none
    upload,             \* the uploaded resume document
    saved_resume_text   \* current_user.resume_text

\* what an entry point of main.py receives and finds
submission == << endpoint, upload, saved_resume_text >>

\* what run_analysis_pipeline computes from the vector
scoring == << raw_score, readiness, category, top_k, top_roles >>

vars == << resume_text, github_username, leetcode_username, github_account, pc,
           feature_vector, resume_features, github_features, leetcode_features,
           gh, requests, outcome, prev_features, history, submission, scoring >>

inputs == << resume_text, github_username, leetcode_username, github_account >>

\* locals whose features dict is the vector the caller is assembling
GhSharesVector ==
    [username |-> "", page |-> 0, all_repos |-> << >>,
     features |-> feature_vector, sorted_repos |-> << >>,
     idx |-> 0, total_commits |-> 0]

\* locals whose features dict is the one the previous call returned
GhKeepsFeatures ==
    [username |-> "", page |-> 0, all_repos |-> << >>,
     features |-> github_features, sorted_repos |-> << >>,
     idx |-> 0, total_commits |-> 0]

GhIdle ==
    [username |-> "", page |-> 0, all_repos |-> << >>,
     features |-> initialize_feature_vector, sorted_repos |-> << >>,
     idx |-> 0, total_commits |-> 0]

\* an uploaded document: its file name, and the text of each page or
\* Unreadable for a page on which extract_text raises; PdfReader raises on
\* the whole file when it is not valid
Unreadable == "<unreadable>"

Document(filename, valid, pages) == [filename |-> filename, valid |-> valid, pages |-> pages]

\* resume: UploadFile = File(None)
NoDocument == Document("", TRUE, << >>)

\* build_complete_feature_vector called directly, not from an entry point
NoSubmission ==
    /\ endpoint = ""
    /\ upload = NoDocument
    /\ saved_resume_text = ""

\* nothing has been scored or ranked, and no call came before
NoAnalysis ==
    /\ history = << >>
    /\ raw_score = 0
    /\ readiness = 0
    /\ category = ""
    /\ top_k = DEFAULT_TOP_K
    /\ top_roles = << >>

Idle ==
    /\ feature_vector = initialize_feature_vector
    /\ resume_features = initialize_feature_vector
    /\ github_features = initialize_feature_vector
    /\ leetcode_features = initialize_feature_vector
    /\ prev_features = initialize_feature_vector
    /\ gh = GhIdle
    /\ requests = << >>
    /\ outcome = "running"
    /\ NoAnalysis
    /\ NoSubmission

\* a call build_complete_feature_vector(resume_text, github_username, leetcode_username)
Init ==
    /\ resume_text \in BuildResumeTexts
    /\ github_username \in GithubInputs
    /\ leetcode_username \in LeetcodeInputs
    /\ github_account \in Accounts
    /\ pc = "resume"
    /\ Idle

Failures == Cardinality({i \in 1..Len(requests) : requests[i].result = "error"})

\* whether a request succeeds: never when the service does not know the
\* user, else the network decides
RequestOutcomes(known) ==
    IF ~known THEN {FALSE}
    ELSE IF Failures < MaxFailures THEN BOOLEAN ELSE {TRUE}

\* an uncaught exception leaves build_complete_feature_vector
Raise(exception) ==
    /\ outcome' = exception
    /\ pc' = "done"

\* lines 645-652: the zero vector, then the resume features by assignment
BuildResume ==
    /\ pc = "resume"
    /\ resume_features' = extract_resume_features(resume_text)
    /\ feature_vector' = MergeResume(initialize_feature_vector, resume_features')
    /\ pc' = "github"
    /\ UNCHANGED << inputs, github_features, leetcode_features, gh, requests,
                    outcome, prev_features, history, submission, scoring >>

\* extract_github_features returns features; lines 655-664 merge them
GithubReturn(features) ==
    /\ github_features' = features
    /\ feature_vector' = MergeGithub(feature_vector, features)
    /\ pc' = "leetcode"
    /\ UNCHANGED outcome

\* lines 366-373: the short-circuit on a missing username, else the cleaning
ExtractGithubBegin ==
    /\ pc = "github"
    /\ IF UsernameMissing(github_username)
       THEN /\ GithubReturn(initialize_feature_vector)
            /\ UNCHANGED gh
       ELSE /\ gh' = [GhIdle EXCEPT !.username = _clean_github_username(github_username),
                                    !.page = 1]
            /\ pc' = "gh_repos"
            /\ UNCHANGED << feature_vector, github_features, outcome >>
    /\ UNCHANGED << inputs, resume_features, leetcode_features, requests, prev_features, history, submission, scoring >>

\* a listing that asks again for the page whose request failed
FetchReposPageAgain ==
    /\ pc = "gh_repos"
    /\ \E ok \in RequestOutcomes(gh.username = KnownUser) :
         LET data == ServePage(github_account, gh.page) IN
         /\ requests' = Append(requests,
                [api |-> "github.repos", arg |-> gh.username, page |-> gh.page,
                 result |-> IF ~ok THEN "error"
                            ELSE IF HasNullCount(data) THEN "malformed" ELSE "ok"])
         /\ IF ~ok /\ Failures + 1 >= MaxFailures
            THEN /\ GithubReturn(FeaturesOnRequestException(gh.features, gh.all_repos))
                 /\ UNCHANGED gh
            ELSE /\ IF ~ok
                    THEN UNCHANGED << gh, pc >>
                    ELSE IF data = << >>
                    THEN /\ pc' = "gh_classify"
                         /\ UNCHANGED gh
                    ELSE /\ gh' = [gh EXCEPT !.all_repos = @ \o data, !.page = @ + 1]
                         /\ pc' = IF PageLimitReached(gh.page + 1) THEN "gh_classify"
                                                                   ELSE "gh_repos"
                 /\ UNCHANGED << feature_vector, github_features, outcome >>
    /\ UNCHANGED << inputs, resume_features, leetcode_features, prev_features, history, submission, scoring >>

\* one iteration of the loop of _fetch_all_repos (lines 502-521); a request
\* for a user GitHub does not know, or any network error, raises
\* RequestException, caught at lines 377-379
FetchReposPage ==
    /\ pc = "gh_repos"
    /\ \E ok \in RequestOutcomes(gh.username = KnownUser) :
         LET data == ServePage(github_account, gh.page) IN
         /\ requests' = Append(requests,
                [api |-> "github.repos", arg |-> gh.username, page |-> gh.page,
                 result |-> IF ~ok THEN "error"
                            ELSE IF HasNullCount(data) THEN "malformed" ELSE "ok"])
         /\ IF ~ok
            THEN /\ GithubReturn(FeaturesOnRequestException(gh.features, gh.all_repos))
                 /\ UNCHANGED gh
            ELSE /\ IF data = << >>
                    THEN /\ pc' = "gh_classify"
                         /\ UNCHANGED gh
                    ELSE /\ gh' = [gh EXCEPT !.all_repos = @ \o data, !.page = @ + 1]
                         /\ pc' = IF PageLimitReached(gh.page + 1) THEN "gh_classify"
                                                                   ELSE "gh_repos"
                 /\ UNCHANGED << feature_vector, github_features, outcome >>
    /\ UNCHANGED << inputs, resume_features, leetcode_features, prev_features, history, submission, scoring >>

\* lines 381-420: the counters, the classification and the choice of the
\* repositories whose commits are looked up
ClassifyRepos ==
    /\ pc = "gh_classify"
    /\ IF HasNullCount(gh.all_repos)
       THEN /\ Raise("TypeError")
            /\ UNCHANGED gh
       ELSE /\ gh' = [gh EXCEPT
                        !.features = ClassifyAll(
                            DictSet(@, "github_total_repos", PyInt(Len(gh.all_repos))),
                            gh.all_repos, 1),
                        !.sorted_repos = TopRepos(SortedByPushed(gh.all_repos)),
                        !.idx = 1,
                        !.total_commits = 0]
            /\ pc' = "gh_commits"
            /\ UNCHANGED outcome
    /\ UNCHANGED << inputs, feature_vector, resume_features, github_features,
                    leetcode_features, requests, prev_features, history, submission, scoring >>

\* one iteration of the loop of lines 422-426, with _fetch_repo_commit_count
FetchRepoCommitCount ==
    /\ pc = "gh_commits"
    /\ gh.idx <= Len(gh.sorted_repos)
    /\ LET repo == gh.sorted_repos[gh.idx] IN
       IF repo.full_name = ""
       THEN /\ gh' = [gh EXCEPT !.idx = @ + 1]
            /\ UNCHANGED requests
       ELSE \E ok \in RequestOutcomes(TRUE) :
              LET commit_count ==
                      _fetch_repo_commit_count(ok, CommitsResponse(repo.commits)) IN
              /\ requests' = Append(requests,
                     [api |-> "github.commits", arg |-> repo.full_name, page |-> 1,
                      result |-> IF ok THEN "ok" ELSE "error"])
              /\ gh' = [gh EXCEPT !.idx = @ + 1,
                                  !.total_commits = @ + commit_count]
    /\ UNCHANGED << inputs, pc, feature_vector, resume_features, github_features,
                    leetcode_features, outcome, prev_features, history, submission, scoring >>

\* lines 428-451: the extrapolation, the contribution score and the return
ExtractGithubFinish ==
    /\ pc = "gh_commits"
    /\ gh.idx > Len(gh.sorted_repos)
    /\ LET total_commits == Extrapolate(gh.total_commits, Len(gh.sorted_repos),
                                        Len(gh.all_repos))
           features == DictSet(DictSet(gh.features,
                                 "github_total_commits", PyInt(total_commits)),
                                 "open_source_contribution_score",
                                 ContributionScore(gh.all_repos, total_commits))
       IN  /\ gh' = [gh EXCEPT !.total_commits = total_commits, !.features = features]
           /\ GithubReturn(features)
    /\ UNCHANGED << inputs, resume_features, leetcode_features, requests, prev_features, history, submission, scoring >>

\* extract_leetcode_features returns features; lines 667-672 merge them
LeetcodeReturn(features) ==
    /\ leetcode_features' = features
    /\ feature_vector' = MergeLeetcode(feature_vector, features)
    /\ pc' = "validate"
    /\ UNCHANGED outcome

\* extract_leetcode_features (lines 561-620) and the merge of its result
ExtractLeetcode ==
    /\ pc = "leetcode"
    /\ IF UsernameMissing(leetcode_username)
       THEN /\ LeetcodeReturn(initialize_feature_vector)
            /\ UNCHANGED requests
       ELSE LET username == _clean_leetcode_username(leetcode_username) IN
            \E resp \in LeetcodeResponses(username) :
              /\ resp.kind = "error" => FALSE \in RequestOutcomes(TRUE)
              /\ requests' = Append(requests,
                     [api |-> "leetcode.graphql", arg |-> username, page |-> 1,
                      result |-> IF resp.kind \in {"error", "malformed"}
                                 THEN resp.kind ELSE "ok",
                      answer |-> resp])
              /\ CASE resp.kind \in {"error", "unmatched"} ->
                        LeetcodeReturn(initialize_feature_vector)
                   [] resp.kind = "malformed" ->
                        /\ Raise("AttributeError")
                        /\ UNCHANGED << feature_vector, leetcode_features >>
                   [] resp.kind = "matched" ->
                        LeetcodeReturn(ParseLeetcode(resp))
    /\ UNCHANGED << inputs, resume_features, github_features, gh, prev_features, history, submission, scoring >>

\* lines 675-677: the validation; its ValueError is not caught
Validate ==
    /\ pc = "validate"
    /\ outcome' = IF _validate_feature_vector(feature_vector) = "ok"
                  THEN "returned" ELSE "ValueError"
    /\ pc' = "done"
    /\ UNCHANGED << inputs, feature_vector, resume_features, github_features,
                    leetcode_features, gh, requests, prev_features, history, submission, scoring >>

Next ==
    \/ BuildResume
    \/ ExtractGithubBegin
    \/ FetchReposPage
    \/ ClassifyRepos
    \/ FetchRepoCommitCount
    \/ ExtractGithubFinish
    \/ ExtractLeetcode
    \/ Validate

Spec == Init /\ [][Next]_vars

TypeOK ==
    /\ pc \in {"resume", "github", "gh_repos", "gh_classify", "gh_commits",
               "leetcode", "validate", "done", "analyzed", "extended", "upload",
               "predict", "calibrate", "categorise", "rank", "ranked"}
    /\ outcome \in {"running", "returned", "ValueError", "TypeError", "AttributeError",
                   "HTTP 400"}
    /\ Len(requests) <= 2 * MAX_PAGES + 1

\* ------------------------------------------------------------------------
\* _validate_feature_vector called on its own, as TestValidation does, on
\* vectors with a missing key, an extra key or a value that is not an int
\* ------------------------------------------------------------------------

RemoveKey(d, k) == [x \in (DOMAIN d) \ {k} |-> d[x]]

CandidateVectors ==
    { initialize_feature_vector,
      DictSet(initialize_feature_vector, "FakeColumn", PyInt(0)),
      DictSet(RemoveKey(initialize_feature_vector, "Python"), "FakeColumn", PyInt(0)) }
      \cup { RemoveKey(initialize_feature_vector, k) : k \in Columns }
      \cup { DictSet(initialize_feature_vector, k, v) :
                 k \in Columns, v \in {PyInt(7), PyFloat(3), PyFloat(4), PyNone} }

NoInputs ==
    /\ resume_text = ""
    /\ github_username = ""
    /\ leetcode_username = ""
    /\ github_account = Account(<< >>, FALSE)
    /\ NoSubmission

InitValidate ==
    /\ NoInputs
    /\ pc = "validate"
    /\ resume_features = initialize_feature_vector
    /\ github_features = initialize_feature_vector
    /\ leetcode_features = initialize_feature_vector
    /\ prev_features = initialize_feature_vector
    /\ gh = GhIdle
    /\ requests = << >>
    /\ outcome = "running"
    /\ NoAnalysis
    /\ feature_vector \in CandidateVectors

SpecValidate == InitValidate /\ [][Validate]_vars

\* ------------------------------------------------------------------------
\* extract_resume_features called on its own, once on a text and once more
\* on the text with more text added
\* ------------------------------------------------------------------------

\* largest number of repetitions of a fragment in a generated resume
MaxReps == 4

RECURSIVE Repeat(_, _)
Repeat(s, n) == IF n = 0 THEN "" ELSE s \o Repeat(s, n - 1)

\* the texts of test_feature_analyzer.py
TestTexts ==
    { "", "Experienced Python developer", "I know JavaScript very well",
      "Built REST APIs with Django and Flask. Deployed on Docker and AWS.",
      "Completed a backend engineering internship at a tech company.",
      "Summer intern in the machine learning research team.",
      "Set up CI/CD pipelines using Jenkins.",
      "Built cross-platform mobile apps with React Native.",
      "Project: Built a REST API backend server.\nProject: Developed a mobile app using Flutter.",
      "Python developer with TensorFlow experience" }

\* one language mention, with what precedes and follows it
LanguageTexts ==
    { pre \o lang \o post :
        pre \in {"", "I know "},
        lang \in {"JavaScript", "Java", "Java Script", "JS", "C++", "C", "C#", "cpp"},
        post \in {"", " very well", ".", ", SQL", "x"} }

\* an anchor word with a domain before and after it
InternTexts ==
    { before \o anchor \o after :
        before \in {"", "Backend ", "Cloud and "},
        anchor \in {"intern", "internship", "interns", "experience", "experienced"},
        after \in {"", " in machine learning", " at a mobile security company"} }

\* a "projects" header, "project" tokens and repeated domain keywords
ProjectTexts ==
    { Repeat("Projects\n", h) \o Repeat("project ", m) \o Repeat(keyword, k) :
        h \in 0..1, m \in 0..MaxReps, k \in 0..MaxReps,
        keyword \in {"backend ", "rest api ", "AWS Docker "} }

ResumeTexts == TestTexts \cup LanguageTexts \cup InternTexts \cup ProjectTexts

\* the text added by the second call
AddedTexts ==
    { " backend server", "s",
      Repeat(" ", WINDOW_BEFORE + 1) \o "Project" }

InitResume ==
    /\ resume_text \in ResumeTexts
    /\ github_username = ""
    /\ leetcode_username = ""
    /\ github_account = Account(<< >>, FALSE)
    /\ pc = "resume"
    /\ Idle

\* extract_resume_features(resume_text)
AnalyzeResume ==
    /\ pc = "resume"
    /\ resume_features' = extract_resume_features(resume_text)
    /\ pc' = "analyzed"
    /\ UNCHANGED << inputs, feature_vector, github_features, leetcode_features, gh,
                    requests, outcome, prev_features, history, submission, scoring >>

\* extract_resume_features(resume_text + added)
ExtendResume ==
    /\ pc = "analyzed"
    /\ \E added \in AddedTexts :
         /\ resume_text' = resume_text \o added
         /\ prev_features' = resume_features
         /\ resume_features' = extract_resume_features(resume_text')
    /\ pc' = "extended"
    /\ UNCHANGED << github_username, leetcode_username, github_account,
                    feature_vector, github_features, leetcode_features, gh,
                    requests, outcome, history, submission, scoring >>

NextResume ==
    \/ AnalyzeResume
    \/ ExtendResume

SpecResume == InitResume /\ [][NextResume]_vars

\* ------------------------------------------------------------------------
\* extract_resume_features on texts whose domain keywords lie around the
\* edges of the context windows
\* ------------------------------------------------------------------------

\* n spaces
Spaces(n) == Repeat(Repeat(" ", 50), n \div 50) \o Repeat(" ", n % 50)

\* "cloud" before and "mobile" after an "intern" token: "cloud" is inside the
\* window up to WINDOW_BEFORE - 5 spaces, "mobile" up to WINDOW_AFTER - 12
InternWindowTexts ==
    { before \o Spaces(gap_before) \o "intern" \o Spaces(gap_after) \o after :
        before \in {"", "Cloud"},
        gap_before \in {1, WINDOW_BEFORE - 6, WINDOW_BEFORE - 5, WINDOW_BEFORE - 4,
                        WINDOW_BEFORE + 50},
        gap_after \in {1, WINDOW_AFTER - 13, WINDOW_AFTER - 12, WINDOW_AFTER - 11,
                       WINDOW_AFTER + 50},
        after \in {"", "mobile"} }

\* "security" after an "experience" header, inside the fallback window up to
\* FALLBACK_AHEAD - 8 spaces, with and without an "intern" token far behind
ExperienceWindowTexts ==
    { "Experience" \o Spaces(gap) \o "security" \o tail :
        gap \in {1, FALLBACK_AHEAD - 9, FALLBACK_AHEAD - 8, FALLBACK_AHEAD - 7},
        tail \in {"", Spaces(WINDOW_BEFORE + 50) \o "intern",
                  Spaces(WINDOW_BEFORE + 50) \o "internship"} }

\* two "intern" tokens with a keyword outside both windows, and texts with
\* no anchor at all
OtherWindowTexts ==
    { "intern" \o Spaces(WINDOW_AFTER + 50) \o "cloud"
          \o Spaces(WINDOW_BEFORE + 50) \o "intern, backend",
      "Cloud security for a mobile backend, machine learning and ETL",
      "Devops internship; experienced in data science" }

WindowTexts ==
    InternWindowTexts \cup ExperienceWindowTexts \cup OtherWindowTexts \cup InternTexts

InitWindows ==
    /\ resume_text \in WindowTexts
    /\ github_username = ""
    /\ leetcode_username = ""
    /\ github_account = Account(<< >>, FALSE)
    /\ pc = "resume"
    /\ Idle

SpecWindows == InitWindows /\ [][AnalyzeResume]_vars

\* ------------------------------------------------------------------------
\* build_complete_feature_vector called with the spellings of a profile:
\* the handle alone or behind a URL prefix, followed by nothing, a slash or
\* more path segments
\* ------------------------------------------------------------------------

Handles == { KnownUser, "Ab-1", "u" }

PathSuffixes == { "", "/", "/repos", "/repos/extra/" }

GithubSpellings(u) ==
    { prefix \o u \o suffix :
        prefix \in { "", "github.com/", "http://github.com/", "https://github.com/" },
        suffix \in PathSuffixes }

LeetcodeSpellings(u) ==
    { prefix \o u \o suffix :
        prefix \in { "", "leetcode.com/", "leetcode.com/u/",
                     "http://leetcode.com/", "http://leetcode.com/u/",
                     "https://leetcode.com/", "https://leetcode.com/u/" },
        suffix \in PathSuffixes }

InitClean ==
    /\ resume_text = ""
    /\ \E u \in Handles :
         /\ github_username \in GithubSpellings(u)
         /\ leetcode_username \in LeetcodeSpellings(u)
    /\ github_account = Account(<< <<RepoJava>> >>, FALSE)
    /\ pc = "resume"
    /\ Idle

SpecClean == InitClean /\ [][Next]_vars

\* Inputs that are not blank but hold no username: only slashes, a path
\* that begins with a slash, a bare URL prefix; and a plain profile URL.
SlashGithubInputs ==
    { "/", " // ", "/octocat", "https://github.com//octocat", "https://github.com/",
      "github.com/octocat" }

SlashLeetcodeInputs ==
    { "/", " // ", "/octocat", "leetcode.com/u/", "leetcode.com/u/octocat/" }

InitSlashes ==
    /\ resume_text = ""
    /\ github_username \in SlashGithubInputs
    /\ leetcode_username \in SlashLeetcodeInputs
    /\ github_account = Account(<< <<RepoJava>> >>, FALSE)
    /\ pc = "resume"
    /\ Idle

SpecSlashes == InitSlashes /\ [][Next]_vars

\* ------------------------------------------------------------------------
\* The GitHub fetch on its own: a call without resume and LeetCode profile.
\* Every request of the loop of _fetch_all_repos has timeout=15, so it
\* returns or raises: an iteration that can be taken is taken.
\* ------------------------------------------------------------------------

InitFetch ==
    /\ resume_text = ""
    /\ github_username \in { KnownUser, "github.com/ghost" }
    /\ leetcode_username = ""
    /\ github_account \in Accounts
    /\ pc = "resume"
    /\ Idle

SpecFetch == InitFetch /\ [][Next]_vars /\ WF_vars(FetchReposPage)

\* ------------------------------------------------------------------------
\* services/role_engine.py
\*
\* Scores are kept exact.  A weight is in hundredths (0.35 is 35), a
\* sub-score in 600ths (600 is 1.0: the denominators 6, 8, 4, 300 and 100
\* and the factor 0.8 all divide it), so a role's score * 100 is
\* ScoreTimes600 / 600 and round(score * 100, 2), in hundredths, is
\* ScoreTimes600 / 6 rounded.  In binary floating point 0.35 is not exact:
\* a sum that is exactly halfway between two hundredths comes out on either
\* side, depending on the other summands, so both roundings are possible
\* results.
\* ------------------------------------------------------------------------

ROLE_DEFINITIONS ==
    <<
      [role |-> "Software Engineer",
       required |-> << "Python", "Java", "C++", "JavaScript", "SQL", "Git", "DSA", "OOPS" >>,
       weights |-> [skills |-> 35, internship |-> 20, projects |-> 25, leetcode |-> 20]],
      [role |-> "Backend Developer",
       required |-> << "Java", "Python", "JavaScript", "Spring", "Node", "Django", "Flask", "FastAPI", "Express", "SQL" >>,
       weights |-> [skills |-> 50, internship |-> 20, projects |-> 15, github |-> 15]],
      [role |-> "Frontend Developer",
       required |-> << "React", "Angular", "Vue", "NextJS", "HTML", "CSS", "JavaScript", "TypeScript" >>,
       weights |-> [skills |-> 50, internship |-> 10, projects |-> 20, github |-> 10]],
      [role |-> "Full Stack Developer",
       required |-> << "React", "Node", "JavaScript", "SQL", "Django", "Spring" >>,
       weights |-> [skills |-> 40, internship |-> 20, projects |-> 20, github |-> 20]],
      [role |-> "Data Scientist",
       required |-> << "Python", "Pandas", "Scikit", "SQL", "NLP", "TensorFlow", "PyTorch" >>,
       weights |-> [skills |-> 35, internship |-> 15, projects |-> 40, leetcode |-> 10]],
      [role |-> "ML Engineer",
       required |-> << "Python", "TensorFlow", "PyTorch", "Scikit", "Pandas", "ComputerVision", "NLP" >>,
       weights |-> [skills |-> 35, internship |-> 20, projects |-> 40, leetcode |-> 5]],
      [role |-> "AI Engineer",
       required |-> << "Python", "TensorFlow", "PyTorch", "LLM", "PromptEngineering", "Scikit" >>,
       weights |-> [skills |-> 35, internship |-> 20, projects |-> 40, github |-> 5]],
      [role |-> "Data Engineer",
       required |-> << "SQL", "Python", "Pandas", "AWS", "Azure", "GCP", "Spark", "Hadoop" >>,
       weights |-> [skills |-> 35, internship |-> 20, projects |-> 40, github |-> 5]],
      [role |-> "Mobile Developer",
       required |-> << "Android", "Flutter", "ReactNative", "Swift", "Kotlin" >>,
       weights |-> [skills |-> 50, internship |-> 20, projects |-> 30, github |-> 0]],
      [role |-> "Android Developer",
       required |-> << "Android", "Java", "Kotlin" >>,
       weights |-> [skills |-> 60, internship |-> 20, projects |-> 20, github |-> 0]],
      [role |-> "DevOps Engineer",
       required |-> << "Docker", "Kubernetes", "CI/CD", "AWS", "Azure", "GCP", "Linux" >>,
       weights |-> [skills |-> 50, internship |-> 20, projects |-> 15, github |-> 15]],
      [role |-> "Cloud Engineer",
       required |-> << "AWS", "Azure", "GCP", "Docker", "Kubernetes" >>,
       weights |-> [skills |-> 50, internship |-> 20, projects |-> 20, github |-> 10]],
      [role |-> "Cybersecurity Analyst",
       required |-> << "EthicalHacking", "Cryptography", "NetworkSecurity", "Linux" >>,
       weights |-> [skills |-> 50, internship |-> 20, projects |-> 30, github |-> 0]],
      [role |-> "Game Developer",
       required |-> << "C++", "C", "Unity", "Unreal", "OpenGL" >>,
       weights |-> [skills |-> 50, internship |-> 10, projects |-> 30, github |-> 10]],
      [role |-> "Blockchain Developer",
       required |-> << "Solidity", "Rust", "Go", "Cryptography", "SmartContracts" >>,
       weights |-> [skills |-> 50, internship |-> 10, projects |-> 30, github |-> 10]],
      [role |-> "QA Engineer",
       required |-> << "Selenium", "JUnit", "PyTest", "SystemDesign", "SQL" >>,
       weights |-> [skills |-> 50, internship |-> 20, projects |-> 15, github |-> 15]],
      [role |-> "Java Developer",
       required |-> << "Java", "Spring", "Hibernate", "SQL", "OOPS" >>,
       weights |-> [skills |-> 50, internship |-> 20, projects |-> 15, leetcode |-> 15]],
      [role |-> "Python Developer",
       required |-> << "Python", "Django", "Flask", "FastAPI", "SQL", "Pandas" >>,
       weights |-> [skills |-> 50, internship |-> 20, projects |-> 15, leetcode |-> 15]] >>

\* user_features.get(key, 0)
Get(user_features, key) ==
    IF key \in DOMAIN user_features THEN IntOf(user_features[key]) ELSE 0

\* weights.get(key, 0)
WeightOf(weights, key) == IF key \in DOMAIN weights THEN weights[key] ELSE 0

\* num / den in 600ths without the cap at 1.0
NormalizeUncapped(num, den) ==
    IF den <= 0 THEN 0 ELSE (600 * num) \div den

\* min(num / den, 1.0) in 600ths, 0 for a non-positive den
_normalize(num, den) ==
    IF den <= 0 THEN 0 ELSE Min2((600 * num) \div den, 600)

\* a skill score that counts every skill of the profile, required or not
skill_score_of_any(config, user_features) ==
    LET denom == IF config.role \in {"Frontend Developer", "Software Engineer"}
                 THEN 8 ELSE 6
        matches == Cardinality({key \in DOMAIN user_features :
                                   Get(user_features, key) > 0})
    IN  _normalize(matches, denom)

\* min(matches / denom, 1.0)
skill_score(config, user_features) ==
    LET denom == IF config.role \in {"Frontend Developer", "Software Engineer"}
                 THEN 8 ELSE 6
        matches == Cardinality({j \in 1..Len(config.required) :
                                   Get(user_features, config.required[j]) > 0})
    IN  _normalize(matches, denom)

\* min(intern_score, 1)
intern_score(role, user_features) ==
    LET f(key) == Get(user_features, key) IN
    Min2(600,
         IF role \in {"Software Engineer", "Backend Developer", "Full Stack Developer",
                      "Java Developer", "Python Developer", "Game Developer",
                      "Blockchain Developer"}
         THEN 600 * f("internship_backend")
         ELSE IF role \in {"Frontend Developer", "QA Engineer"}
         THEN 600 * Max2(f("internship_backend"), f("internship_mobile"))
         ELSE IF role \in {"Data Scientist", "ML Engineer", "AI Engineer", "Data Engineer"}
         THEN Max2(600 * Max2(f("internship_ai"), f("internship_data")),
                   480 * f("internship_backend"))
         ELSE IF role \in {"Mobile Developer", "Android Developer"}
         THEN 600 * f("internship_mobile")
         ELSE IF role \in {"DevOps Engineer", "Cloud Engineer"}
         THEN 600 * f("internship_cloud")
         ELSE IF role = "Cybersecurity Analyst"
         THEN 600 * f("internship_security")
         ELSE 0)

\* min(proj_count / 4.0, 1.0)
proj_score(role, user_features) ==
    LET f(key) == Get(user_features, key) IN
    _normalize(IF role \in {"Backend Developer", "Full Stack Developer", "Java Developer",
                            "Python Developer", "Game Developer", "Blockchain Developer"}
               THEN f("num_backend_projects")
               ELSE IF role = "Frontend Developer"
               THEN Max2(f("num_backend_projects"), f("num_mobile_projects"))
               ELSE IF role \in {"Data Scientist", "ML Engineer", "AI Engineer",
                                 "Data Engineer"}
               THEN f("num_ai_projects")
               ELSE IF role \in {"Mobile Developer", "Android Developer", "QA Engineer"}
               THEN f("num_mobile_projects")
               ELSE IF role \in {"DevOps Engineer", "Cloud Engineer"}
               THEN f("num_cloud_projects")
               ELSE IF role = "Cybersecurity Analyst"
               THEN f("num_security_projects")
               ELSE 0,
               4)

\* gh_score * weights["github"], else lc_score * weights["leetcode"]
technical_score(weights, user_features) ==
    IF "github" \in DOMAIN weights
    THEN weights["github"] * _normalize(Get(user_features, "github_total_commits"), 300)
    ELSE IF "leetcode" \in DOMAIN weights
    THEN weights["leetcode"] *
             _normalize(Get(user_features, "leetcode_medium")
                            + Get(user_features, "leetcode_hard") * 2, 100)
    ELSE 0

\* score * 100, in 600ths
ScoreTimes600(config, user_features) ==
    skill_score(config, user_features) * WeightOf(config.weights, "skills")
        + intern_score(config.role, user_features) * WeightOf(config.weights, "internship")
        + proj_score(config.role, user_features) * WeightOf(config.weights, "projects")
        + technical_score(config.weights, user_features)

\* the roles whose score is exactly halfway between two hundredths
TiedRoles(user_features) ==
    { i \in 1..Len(ROLE_DEFINITIONS) :
         ScoreTimes600(ROLE_DEFINITIONS[i], user_features) % 6 = 3 }

\* scores[role] = round(score * 100, 2), in hundredths; the halfway scores
\* of the roles in up are rounded up, the other ones down
Scores(user_features, up) ==
    [i \in 1..Len(ROLE_DEFINITIONS) |->
        LET n == ScoreTimes600(ROLE_DEFINITIONS[i], user_features)
        IN  IF n % 6 > 3 \/ (n % 6 = 3 /\ i \in up) THEN n \div 6 + 1 ELSE n \div 6]

\* a sort that turns the order of equal scores around
SortedAscendingReversed(scores) ==
    [p \in 1..Len(scores) |->
        LET i == CHOOSE i \in 1..Len(scores) :
                     p = 1 + Cardinality({j \in 1..Len(scores) :
                             scores[j] > scores[i] \/ (scores[j] = scores[i] /\ j > i)})
        IN  << ROLE_DEFINITIONS[i].role, scores[i] >>]

\* sorted(scores.items(), key=lambda x: x[1], reverse=True): the sort is
\* stable, items of equal score stay in the order of the dict
Sorted(scores) ==
    [p \in 1..Len(scores) |->
        LET i == CHOOSE i \in 1..Len(scores) :
                     p = 1 + Cardinality({j \in 1..Len(scores) :
                             scores[j] > scores[i] \/ (scores[j] = scores[i] /\ j < i)})
        IN  << ROLE_DEFINITIONS[i].role, scores[i] >>]

\* ranked[:top_k]; a negative top_k drops items from the end
Truncate(ranked, k) ==
    SubSeq(ranked, 1, IF k >= 0 THEN Min2(k, Len(ranked)) ELSE Max2(Len(ranked) + k, 0))

rank_roles(user_features, k, up) == Truncate(Sorted(Scores(user_features, up)), k)

\* rank_roles(feature_vector, top_k)
RankRoles ==
    /\ pc = "rank"
    /\ \E up \in SUBSET TiedRoles(feature_vector) :
         top_roles' = rank_roles(feature_vector, top_k, up)
    /\ pc' = "ranked"
    /\ UNCHANGED << inputs, feature_vector, resume_features, github_features,
                    leetcode_features, gh, requests, outcome, prev_features, history, submission,
                    raw_score, readiness, category, top_k >>

\* the dict with 1 under every key of keys and 0 under the other columns
Flagged(keys) ==
    [key \in Columns \cup keys |-> IF key \in keys THEN PyInt(1) ELSE PyInt(0)]

\* a profile with every skill and internship, many projects and commits
MaxedVector ==
    [key \in Columns \cup UNION {Range(ROLE_DEFINITIONS[i].required) :
                                    i \in 1..Len(ROLE_DEFINITIONS)} |->
        IF key \in {"github_total_commits", "leetcode_medium", "leetcode_hard"}
        THEN PyInt(300)
        ELSE IF StartsWith(key, "num_") THEN PyInt(10) ELSE PyInt(1)]

\* a profile far above every cap: internship counts above 1, hundreds of
\* projects, a hundred thousand commits and solved problems
SaturatedVector ==
    [key \in DOMAIN MaxedVector |->
        IF key \in {"github_total_commits", "leetcode_medium", "leetcode_hard"}
        THEN PyInt(100000)
        ELSE IF StartsWith(key, "num_") THEN PyInt(250)
        ELSE IF StartsWith(key, "internship_") THEN PyInt(3) ELSE PyInt(1)]

\* the vectors ranked: the zero vector, for every role the vector of its
\* required skills (as a dict, and restricted to the feature columns), and
\* profiles with projects, commits and solved problems
RankVectors ==
    { initialize_feature_vector, MaxedVector, SaturatedVector, Flagged({"Python"}),
      [Flagged({"Python", "internship_backend"}) EXCEPT
          !["num_backend_projects"] = PyInt(3), !["leetcode_medium"] = PyInt(7),
          !["github_total_commits"] = PyInt(45)] }
      \cup { Flagged(Range(ROLE_DEFINITIONS[i].required)) : i \in 1..Len(ROLE_DEFINITIONS) }
      \cup { Flagged(Range(ROLE_DEFINITIONS[i].required) \cap Columns) :
                 i \in 1..Len(ROLE_DEFINITIONS) }

\* largest top_k asked for
MaxTopK == 19

InitRank ==
    /\ NoInputs
    /\ pc = "rank"
    /\ resume_features = initialize_feature_vector
    /\ github_features = initialize_feature_vector
    /\ leetcode_features = initialize_feature_vector
    /\ prev_features = initialize_feature_vector
    /\ gh = GhIdle
    /\ requests = << >>
    /\ outcome = "returned"
    /\ feature_vector \in RankVectors
    /\ history = << >>
    /\ raw_score = 0
    /\ readiness = 0
    /\ category = ""
    /\ top_k \in -1..MaxTopK
    /\ top_roles = << >>

SpecRank == InitRank /\ [][RankRoles]_vars

-----------------------------------------------------------------------------
\* main.py: run_analysis_pipeline after the feature vector is built.  Scores
\* are integers in hundredths: a raw score of 43.0 is 4300, a readiness of
\* 50.0 is 5000.  The regressor is loaded from a pickle file, so its output is
\* any of RawScores.

MODEL_MIN == 600

MODEL_MAX == 8000

\* a clamp that forgets the lower limit
ClampAbove(lo, x, hi) == Min2(hi, x)

\* max(lo, min(hi, x))
Clamp(lo, x, hi) == Max2(lo, Min2(hi, x))

\* round(num / den, 0) for den > 0, an exact tie going to the even neighbour
Round(num, den) ==
    LET q == num \div den
        r == num % den
    IN  IF 2 * r > den \/ (2 * r = den /\ q % 2 = 1) THEN q + 1 ELSE q

\* ((raw - MODEL_MIN) / (MODEL_MAX - MODEL_MIN)) * 100, clamped to 0..100 and
\* rounded to 2 decimals; the quotient is kept as a fraction over
\* MODEL_MAX - MODEL_MIN until the rounding
Calibrated(raw) ==
    LET span == MODEL_MAX - MODEL_MIN
    IN  Round(Clamp(0, (raw - MODEL_MIN) * 10000, 10000 * span), span)

\* a categorisation that compares with > in place of >=
CategoryAbove(score) ==
    IF score > 7500 THEN "Placement Ready"
    ELSE IF score > 5000 THEN "Almost Ready"
    ELSE "Needs Improvement"

\* if readiness >= 75 ... elif readiness >= 50 ... else
CategoryOf(score) ==
    IF score >= 7500 THEN "Placement Ready"
    ELSE IF score >= 5000 THEN "Almost Ready"
    ELSE "Needs Improvement"

\* outputs of the regressor: the limits, the midpoint, the raw scores around
\* the two category thresholds, a grid from -5.0 to 100.0, and far outliers
RawScores ==
    UNION { { base + d : d \in -2..2 } :
               base \in { MODEL_MIN, MODEL_MAX, 4300, 6150 } }
        \cup { 100 * k : k \in -5..100 }
        \cup { -100000, 100000 }

\* raw_score = float(model.predict(df)[0])
Predict ==
    /\ pc = "predict"
    /\ raw_score' \in RawScores
    /\ pc' = "calibrate"
    /\ UNCHANGED << inputs, feature_vector, resume_features, github_features,
                    leetcode_features, gh, requests, outcome, prev_features, history, submission,
                    readiness, category, top_k, top_roles >>

Calibrate ==
    /\ pc = "calibrate"
    /\ readiness' = Calibrated(raw_score)
    /\ pc' = "categorise"
    /\ UNCHANGED << inputs, feature_vector, resume_features, github_features,
                    leetcode_features, gh, requests, outcome, prev_features, history, submission,
                    raw_score, category, top_k, top_roles >>

Categorise ==
    /\ pc = "categorise"
    /\ category' = CategoryOf(readiness)
    /\ pc' = "rank"
    /\ UNCHANGED << inputs, feature_vector, resume_features, github_features,
                    leetcode_features, gh, requests, outcome, prev_features, history, submission,
                    raw_score, readiness, top_k, top_roles >>

\* vectors handed over by build_complete_feature_vector
AnalysisVectors ==
    { initialize_feature_vector, MaxedVector, Flagged({"Python"}) }

InitAnalysis ==
    /\ NoInputs
    /\ pc = "predict"
    /\ resume_features = initialize_feature_vector
    /\ github_features = initialize_feature_vector
    /\ leetcode_features = initialize_feature_vector
    /\ prev_features = initialize_feature_vector
    /\ gh = GhIdle
    /\ requests = << >>
    /\ outcome = "returned"
    /\ feature_vector \in AnalysisVectors
    /\ NoAnalysis

NextAnalysis == Predict \/ Calibrate \/ Categorise \/ RankRoles

SpecAnalysis == InitAnalysis /\ [][NextAnalysis]_vars

-----------------------------------------------------------------------------
\* A server process serving one build_complete_feature_vector call after
\* another.  Whatever a call left in the process is still there when the next
\* call starts; history remembers the call before.

SessionTexts == { "", "Java, Docker" }

SessionGithub == { "", "https://github.com/octocat/" }

SessionLeetcode == { "", KnownUser }

SessionAccounts == { Account(<< >>, FALSE), Account(<< <<RepoJava, RepoMl>> >>, FALSE) }

InitSession ==
    /\ resume_text \in SessionTexts
    /\ github_username \in SessionGithub
    /\ leetcode_username \in SessionLeetcode
    /\ github_account \in SessionAccounts
    /\ pc = "resume"
    /\ Idle

\* what is known of a finished call: its arguments, what the services
\* answered, and what it gave back
Completed ==
    [resume_text |-> resume_text, github_username |-> github_username,
     leetcode_username |-> leetcode_username, github_account |-> github_account,
     requests |-> requests, resume_features |-> resume_features,
     leetcode_features |-> leetcode_features,
     outcome |-> outcome, feature_vector |-> feature_vector]

\* the next request arrives: new arguments, and GitHub may have changed
NextRequest ==
    /\ pc = "done"
    /\ history' = << Completed >>
    /\ resume_text' \in SessionTexts
    /\ github_username' \in SessionGithub
    /\ leetcode_username' \in SessionLeetcode
    /\ github_account' \in SessionAccounts
    /\ requests' = << >>
    /\ outcome' = "running"
    /\ pc' = "resume"
    /\ UNCHANGED << feature_vector, resume_features, github_features,
                    leetcode_features, gh, prev_features, submission, scoring >>

NextSession == Next \/ NextRequest

SpecSession == InitSession /\ [][NextSession]_vars

-----------------------------------------------------------------------------
\* main.py: the two entry points that accept an uploaded resume, up to the
\* feature vector.  PdfReader and extract_text are PyPDF2's; a document is
\* modelled by what they give for it.

RECURSIVE PagesText(_, _)
\* for page in reader.pages: text += page.extract_text() + "\n" when it is
\* not empty; an exception on a page ends the loop with the text read so far
PagesText(pages, i) ==
    IF i > Len(pages) THEN ""
    ELSE IF pages[i] = Unreadable THEN ""
    ELSE (IF pages[i] /= "" THEN pages[i] \o "\n" ELSE "") \o PagesText(pages, i + 1)

\* the text collected by the time the try block is left
TextRead(document) == IF document.valid THEN PagesText(document.pages, 1) ELSE ""

\* PdfReader or extract_text raises
ParseFails(document) ==
    \/ ~document.valid
    \/ \E i \in 1..Len(document.pages) : document.pages[i] = Unreadable

\* analyze_full_profile, lines 371-395: the exception of the parse is logged
\* and the text read so far is analysed; the saved resume is used only when
\* nothing is uploaded
AnalyzeFullProfileUpload ==
    /\ pc = "upload"
    /\ endpoint = "analyze_full_profile"
    /\ resume_text' = IF upload.filename /= "" THEN TextRead(upload)
                      ELSE saved_resume_text
    /\ github_username' = Strip(github_username)
    /\ leetcode_username' = Strip(leetcode_username)
    /\ pc' = "resume"
    /\ UNCHANGED << github_account, feature_vector, resume_features, github_features,
                    leetcode_features, gh, requests, outcome, prev_features, history,
                    submission, scoring >>

\* update_profile, lines 238-272, and the defaults of run_analysis_pipeline,
\* lines 147-154: the exception of the parse becomes HTTPException(400);
\* otherwise the text is saved and the pipeline runs on it, or on the saved
\* text when it is empty
UpdateProfileUpload ==
    /\ pc = "upload"
    /\ endpoint = "update_profile"
    /\ IF upload.filename /= "" /\ ParseFails(upload)
       THEN /\ outcome' = "HTTP 400"
            /\ pc' = "done"
            /\ UNCHANGED << resume_text, github_username, leetcode_username,
                            saved_resume_text >>
       ELSE /\ saved_resume_text' = IF upload.filename /= "" THEN TextRead(upload)
                                    ELSE saved_resume_text
            /\ resume_text' = saved_resume_text'
            /\ github_username' = Strip(github_username)
            /\ leetcode_username' = Strip(leetcode_username)
            /\ pc' = "resume"
            /\ UNCHANGED outcome
    /\ UNCHANGED << github_account, feature_vector, resume_features, github_features,
                    leetcode_features, gh, requests, prev_features, history,
                    endpoint, upload, scoring >>

\* nothing uploaded, a resume of one page, a file that is not a PDF, a PDF
\* whose second page cannot be read, and a PDF without text
Uploads ==
    { NoDocument,
      Document("cv.pdf", TRUE, << "Python, Flask" >>),
      Document("cv.pdf", FALSE, << >>),
      Document("cv.pdf", TRUE, << "Python, Flask", Unreadable >>),
      Document("scan.pdf", TRUE, << "" >>) }

InitUpload ==
    /\ endpoint \in {"analyze_full_profile", "update_profile"}
    /\ upload \in Uploads
    /\ saved_resume_text \in {"", "Java, Docker"}
    /\ resume_text = ""
    /\ github_username \in {"", " octocat "}
    /\ leetcode_username \in {"", KnownUser}
    /\ github_account = Account(<< <<RepoJava>> >>, FALSE)
    /\ pc = "upload"
    /\ feature_vector = initialize_feature_vector
    /\ resume_features = initialize_feature_vector
    /\ github_features = initialize_feature_vector
    /\ leetcode_features = initialize_feature_vector
    /\ prev_features = initialize_feature_vector
    /\ gh = GhIdle
    /\ requests = << >>
    /\ outcome = "running"
    /\ NoAnalysis

NextUpload == AnalyzeFullProfileUpload \/ UpdateProfileUpload \/ Next

SpecUpload == InitUpload /\ [][NextUpload]_vars

-----------------------------------------------------------------------------
\* extract_github_features on accounts whose repositories exercise every
\* branch of the classification and the commit sampling

\* matches the AI hint "vision" and the mobile hint "app"
RepoVisionApp == Repo("vision-app", "", "JavaScript", FALSE, PyInt(0), PyInt(0), 6, 2)

\* no language; matches the cloud hint and the security hint "secur"
RepoVault == Repo("vault", "secure cloud storage", NullLanguage, FALSE, PyInt(0), PyInt(0), 3, 1)

\* a language of the table, and a name that matches the AI hint "ml"
RepoGoMl == Repo("ml-server", "", "Go", FALSE, PyInt(0), PyInt(0), 4, 5)

\* a language neither in the table nor ambiguous, and a mobile hint
RepoAndroidSite == Repo("android-site", "", "HTML", TRUE, PyInt(0), PyInt(0), 2, 0)

\* a repository with 41 commits of the user
RepoBusy == Repo("engine", "", "Rust", FALSE, PyInt(1), PyInt(0), 8, 41)

GithubAccounts ==
    { Account(<< <<RepoVisionApp, RepoVault, RepoGoMl, RepoAndroidSite,
                   RepoPlain, RepoNoLanguage, RepoUnnamed>> >>, FALSE),
      Account(<< <<RepoJava, RepoMl, RepoPlain, RepoNoLanguage, RepoHtml, RepoUnnamed,
                   RepoJava, RepoMl, RepoPlain, RepoNoLanguage, RepoHtml, RepoJava>> >>,
              FALSE),
      Account(<< <<RepoBusy, RepoPlain, RepoPlain, RepoPlain, RepoPlain, RepoPlain,
                   RepoPlain, RepoPlain>>,
                 <<RepoPlain, RepoBusy, RepoPlain, RepoPlain, RepoPlain, RepoPlain,
                   RepoPlain>> >>, FALSE) }

InitGithub ==
    /\ resume_text = ""
    /\ github_username = KnownUser
    /\ leetcode_username = ""
    /\ github_account \in GithubAccounts
    /\ pc = "resume"
    /\ Idle

SpecGithub == InitGithub /\ [][Next]_vars

\* ------------------------------------------------------------------------
\* Properties
\* ------------------------------------------------------------------------

\* the groups of FEATURE_COLUMNS: 45 skills, 6 internships, 5 project counts,
\* 3 GitHub metrics, 5 LeetCode metrics
SkillColumns == {FEATURE_COLUMNS[i] : i \in 1..45}

InternshipColumns == {FEATURE_COLUMNS[i] : i \in 46..51}

ProjectColumns == {FEATURE_COLUMNS[i] : i \in 52..56}

GithubColumns == {FEATURE_COLUMNS[i] : i \in 57..59}

LeetcodeColumns == {FEATURE_COLUMNS[i] : i \in 60..64}

AllZero(features) ==
    /\ DOMAIN features = Columns
    /\ \A key \in Columns : features[key] = PyInt(0)

RequestsTo(apis) == {i \in 1..Len(requests) : requests[i].api \in apis}

FailedRequests(apis) == {i \in RequestsTo(apis) : requests[i].result = "error"}

GithubApis == {"github.repos", "github.commits"}

\* extract_github_features has returned to build_complete_feature_vector
GithubReturned ==
    \/ pc \in {"leetcode", "validate"}
    \/ pc = "done" /\ outcome /= "TypeError"

\* the three merges are done
Merged == pc = "validate" \/ outcome \in {"returned", "ValueError"}

\* C1: whenever build_complete_feature_vector returns, whatever the inputs
\* and the outcomes of the external calls, the returned vector has exactly
\* the 64 canonical keys and every value is an integer.
C1_ReturnedVectorIsCanonical ==
    outcome = "returned" =>
        /\ DOMAIN feature_vector = Columns
        /\ Cardinality(DOMAIN feature_vector) = 64
        /\ \A key \in DOMAIN feature_vector : feature_vector[key].int

\* a call that returns after GitHub and LeetCode data arrived and a request failed
C1_Witness ==
    /\ outcome = "returned"
    /\ feature_vector["github_total_repos"].twice > 0
    /\ feature_vector["leetcode_total"].twice > 0
    /\ FailedRequests(GithubApis) /= {}

\* C2 (as claimed): a failure of an external source (network or HTTP error,
\* malformed or unexpected response, unknown username) never aborts
\* build_complete_feature_vector: the call returns normally, and the skill,
\* internship and LeetCode fields are what they would be had GitHub been
\* given an empty username.
C2_SourceFailureNeverAborts ==
    (pc = "done" /\ \E i \in 1..Len(requests) : requests[i].result /= "ok") =>
        /\ outcome = "returned"
        /\ FailedRequests(GithubApis) /= {} =>
              \A key \in SkillColumns \cup InternshipColumns \cup LeetcodeColumns :
                  feature_vector[key] =
                      MergeLeetcode(MergeResume(initialize_feature_vector, resume_features),
                                    leetcode_features)[key]

C4_MergePerField ==
    Merged =>
        /\ \A key \in ProjectColumns \cup GithubColumns :
              /\ feature_vector[key].twice
                     = resume_features[key].twice + github_features[key].twice
              /\ feature_vector[key].int
                     = (resume_features[key].int /\ github_features[key].int)
        /\ \A key \in SkillColumns \cup InternshipColumns :
              feature_vector[key].twice
                  = Max2(resume_features[key].twice, github_features[key].twice)
        /\ \A key \in LeetcodeColumns :
              feature_vector[key].twice
                  = Max2(Max2(resume_features[key].twice, github_features[key].twice),
                         leetcode_features[key].twice)

\* a merge in which the resume and GitHub both count projects of one domain
C4_Witness ==
    /\ Merged
    /\ resume_features["num_backend_projects"].twice > 0
    /\ github_features["num_backend_projects"].twice > 0
    /\ \E key \in SkillColumns : resume_features[key] = PyInt(1)
    /\ leetcode_features["leetcode_total"].twice > 0

\* C5: _validate_feature_vector accepts a vector if and only if its key set
\* is the canonical one and every value is an integer; otherwise it raises
\* ValueError, which leaves build_complete_feature_vector uncaught.
C5_ValidateAcceptsExactlyCanonical ==
    pc = "done" =>
        /\ outcome \in {"returned", "ValueError"}
        /\ outcome = "returned" <=>
              /\ \A col \in Columns : col \in DOMAIN feature_vector
              /\ \A key \in DOMAIN feature_vector : key \in Columns
              /\ \A key \in DOMAIN feature_vector :
                    feature_vector[key] /= PyNone /\ feature_vector[key].int

\* a vector with the canonical keys and the value 1.5 is rejected
C5_Witness ==
    /\ pc = "done"
    /\ outcome = "ValueError"
    /\ DOMAIN feature_vector = Columns
    /\ feature_vector["Python"] = PyFloat(3)

BlankInputs == {"", " ", "  ", " \n"}

\* C6: an empty or whitespace-only username makes the fetcher return the
\* all-zero vector without any network request, an empty or whitespace-only
\* resume makes extract_resume_features return the all-zero vector, and with
\* all three inputs empty the built vector is all zeros.
C6_EmptyInputsShortCircuit ==
    /\ github_username \in BlankInputs =>
          /\ RequestsTo(GithubApis) = {}
          /\ GithubReturned => AllZero(github_features)
    /\ leetcode_username \in BlankInputs =>
          /\ RequestsTo({"leetcode.graphql"}) = {}
          /\ Merged => AllZero(leetcode_features)
    /\ (resume_text \in BlankInputs /\ pc /= "resume") => AllZero(resume_features)
    /\ (pc = "done" /\ resume_text \in BlankInputs /\ github_username \in BlankInputs
            /\ leetcode_username \in BlankInputs) =>
          outcome = "returned" /\ AllZero(feature_vector)

\* a finished call whose three inputs are whitespace only
C6_Witness ==
    /\ pc = "done"
    /\ outcome = "returned"
    /\ resume_text = " \n"
    /\ github_username = "  "
    /\ leetcode_username = " "
    /\ AllZero(feature_vector)

\* C7 (as claimed): the resume of test_internship_detection, which describes
\* a backend internship with the word "internship", gets internship_backend = 1.
C7_InternshipWordAnchorsContext ==
    (pc = "analyzed"
        /\ resume_text = "Completed a backend engineering internship at a tech company.") =>
        resume_features["internship_backend"] = PyInt(1)

JavaScriptOnlyTexts ==
    { pre \o "JavaScript" \o post :
        pre \in {"", "I know "}, post \in {"", " very well", "."} }

CppOnlyTexts ==
    { pre \o "C++" \o post :
        pre \in {"", "I know "}, post \in {"", " very well", "."} }

\* C8 (as claimed): a resume whose only language mention is "JavaScript"
\* has JavaScript = 1 and Java = 0, and a resume whose only language mention
\* is "C++" followed by a space, punctuation or the end of the text has
\* C++ = 1 and C = 0.
C8_NoCrossTalk ==
    pc = "analyzed" =>
        /\ resume_text \in JavaScriptOnlyTexts =>
              /\ resume_features["JavaScript"] = PyInt(1)
              /\ resume_features["Java"] = PyInt(0)
        /\ resume_text \in CppOnlyTexts =>
              /\ resume_features["C++"] = PyInt(1)
              /\ resume_features["C"] = PyInt(0)

\* C9: each of the five num_*_projects values of extract_resume_features is
\* an integer in 0..10, however often domain keywords are repeated in the
\* project context.
C9_ProjectCountsCapped ==
    pc \in {"analyzed", "extended"} =>
        \A key \in ProjectColumns :
            /\ resume_features[key].int
            /\ IntOf(resume_features[key]) >= 0
            /\ IntOf(resume_features[key]) <= 10

\* a resume whose project context holds more than ten cloud keywords
C9_Witness ==
    /\ pc = "analyzed"
    /\ resume_features["num_cloud_projects"] = PyInt(10)
    /\ resume_text = Repeat("project ", 3) \o Repeat("AWS Docker ", 2)

\* C10 (as claimed): for every text T and every added text S, each
\* num_*_projects value of extract_resume_features(T + S) is at least the
\* value of extract_resume_features(T).
C10_ProjectCountsMonotone ==
    pc = "extended" =>
        \A key \in ProjectColumns :
            resume_features[key].twice >= prev_features[key].twice

\* the username in the URL of every repository-listing request
GithubRequestedAs(u) ==
    \A i \in RequestsTo({"github.repos"}) : requests[i].arg = u

\* the username in the variables of every LeetCode GraphQL request
LeetcodeRequestedAs(u) ==
    \A i \in RequestsTo({"leetcode.graphql"}) : requests[i].arg = u

\* "leetcode.com/u/..." with a path behind it: the profile URL of the path's
\* first segment, and also the handle "u" followed by extra path segments
ReadAsProfileOfPath(u) ==
    { prefix \o u \o suffix :
        prefix \in { "leetcode.com/", "http://leetcode.com/", "https://leetcode.com/" },
        suffix \in { x \in PathSuffixes : Len(x) > 1 } }

ListingRequests == RequestsTo({"github.repos"})

\* the listing request at position i got a non-empty page
GotRepos(i) ==
    /\ requests[i].result /= "error"
    /\ ServePage(github_account, requests[i].page) /= << >>

\* the longest page GitHub serves for the account
LongestPage(account) ==
    SetMax({0} \cup {Len(account.pages[p]) : p \in 1..Len(account.pages)})

\* the loop of _fetch_all_repos asks for pages 1, 2, 3, ... in order, goes on
\* only after a page with repositories, and asks for at most MAX_PAGES pages
ListingInOrderAndBounded ==
    /\ \A i \in ListingRequests : requests[i].page = i
    /\ \A i \in ListingRequests : (i + 1) \in ListingRequests => GotRepos(i)
    /\ pc = "gh_repos" =>
          /\ gh.page = Cardinality(ListingRequests) + 1
          /\ \A i \in ListingRequests : GotRepos(i)
    /\ Cardinality(ListingRequests) <= MAX_PAGES
    /\ Len(gh.all_repos) <= MAX_PAGES * LongestPage(github_account)

\* C17: _fetch_all_repos requests the pages in order 1, 2, 3, ..., stops at
\* the first empty page or failed request, never issues more than 10 page
\* requests (so at most 10 pages of repositories are returned), and
\* terminates whatever the API answers.
C17_FetchAllReposTerminates ==
    /\ []ListingInOrderAndBounded
    /\ (pc = "gh_repos") ~> (pc /= "gh_repos")

\* an account that answers every page with a repository: ten pages were
\* requested and the fetch went on to the classification
C17_Witness ==
    /\ github_account.endless
    /\ pc = "gh_classify"
    /\ Cardinality(ListingRequests) = MAX_PAGES
    /\ \A i \in ListingRequests : GotRepos(i)
    /\ Len(gh.all_repos) = MAX_PAGES

\* C19: in every vector returned by build_complete_feature_vector each of
\* the 45 skill flags and each of the 6 internship flags is the integer 0 or
\* 1, whatever the resume says and whatever GitHub and LeetCode answer.
C19_FlagsAreBinary ==
    outcome = "returned" =>
        \A key \in SkillColumns \cup InternshipColumns :
            feature_vector[key] \in {PyInt(0), PyInt(1)}

\* a resume that names a skill in two spellings and two internships, merged with a
\* GitHub listing and a LeetCode profile that both answered
C19_Witness ==
    /\ outcome = "returned"
    /\ resume_text = "FastAPI (Fast API) on Docker. Cloud intern, then security intern."
    /\ feature_vector["FastAPI"] = PyInt(1)
    /\ feature_vector["internship_cloud"] = PyInt(1)
    /\ feature_vector["internship_security"] = PyInt(1)
    /\ IntOf(feature_vector["github_total_repos"]) > 0
    /\ IntOf(feature_vector["leetcode_total"]) > 0

\* the position of a role in ROLE_DEFINITIONS
RoleIndex(role) ==
    CHOOSE i \in 1..Len(ROLE_DEFINITIONS) : ROLE_DEFINITIONS[i].role = role

RequiredOf(role) == Range(ROLE_DEFINITIONS[RoleIndex(role)].required)

\* every required skill of "Java Developer" is 1 and every other field is 0:
\* as a dict with all five skills, and as a vector of the 64 feature columns
JavaDeveloperVectors ==
    { Flagged(RequiredOf("Java Developer")),
      Flagged(RequiredOf("Java Developer") \cap Columns) }

\* C13: for the vector in which every required skill of "Java Developer" is
\* 1 and every other field is 0, rank_roles scores "Java Developer" strictly
\* higher than every role whose required skills share none of those skills.
C13_JavaDeveloperOutranksUnrelated ==
    (pc = "ranked" /\ top_k >= Len(ROLE_DEFINITIONS)
        /\ feature_vector \in JavaDeveloperVectors) =>
        /\ \E p \in 1..Len(top_roles) : top_roles[p][1] = "Java Developer"
        /\ \A p, q \in 1..Len(top_roles) :
              (/\ top_roles[p][1] = "Java Developer"
               /\ RequiredOf(top_roles[q][1]) \cap RequiredOf("Java Developer") = {}) =>
                  top_roles[p][2] > top_roles[q][2]

\* the full ranking of the Java Developer vector: "Java Developer" first with
\* 41.67, "Mobile Developer", which shares no skill with it, at 0
C13_Witness ==
    /\ pc = "ranked"
    /\ top_k = Len(ROLE_DEFINITIONS)
    /\ feature_vector = Flagged(RequiredOf("Java Developer"))
    /\ top_roles[1] = << "Java Developer", 4167 >>
    /\ \E q \in 1..Len(top_roles) : top_roles[q] = << "Mobile Developer", 0 >>
    /\ RequiredOf("Mobile Developer") \cap RequiredOf("Java Developer") = {}

\* the hundredths a role's score can round to
PossibleScores(role, user_features) ==
    LET n == ScoreTimes600(ROLE_DEFINITIONS[RoleIndex(role)], user_features)
    IN  IF n % 6 = 3 THEN {n \div 6, n \div 6 + 1}
        ELSE IF n % 6 > 3 THEN {n \div 6 + 1} ELSE {n \div 6}

\* C15: rank_roles returns the roles sorted by score in descending order,
\* roles of equal score in the order of ROLE_DEFINITIONS, cut to the first
\* top_k: for top_k >= 0 the result has min(top_k, number of roles) entries
\* with distinct role names, no role left out scores higher than a listed
\* one, and the all-zero vector with top_k = 3 gives the first three roles of
\* the catalog with score 0.
C15_RankedDescendingStableTruncated ==
    pc = "ranked" =>
        /\ top_k >= 0 => Len(top_roles) = Min2(top_k, Len(ROLE_DEFINITIONS))
        /\ \A p, q \in 1..Len(top_roles) :
              p < q =>
                 /\ top_roles[p][1] /= top_roles[q][1]
                 /\ top_roles[p][2] >= top_roles[q][2]
                 /\ top_roles[p][2] = top_roles[q][2] =>
                        RoleIndex(top_roles[p][1]) < RoleIndex(top_roles[q][1])
        /\ \A p \in 1..Len(top_roles) :
              top_roles[p][2] \in PossibleScores(top_roles[p][1], feature_vector)
        /\ \A i \in 1..Len(ROLE_DEFINITIONS), p \in 1..Len(top_roles) :
              (\A q \in 1..Len(top_roles) : top_roles[q][1] /= ROLE_DEFINITIONS[i].role) =>
                  \E score \in PossibleScores(ROLE_DEFINITIONS[i].role, feature_vector) :
                      \/ score < top_roles[p][2]
                      \/ score = top_roles[p][2] /\ RoleIndex(top_roles[p][1]) < i
        /\ (feature_vector = initialize_feature_vector /\ top_k = DEFAULT_TOP_K) =>
              top_roles = [p \in 1..DEFAULT_TOP_K |-> << ROLE_DEFINITIONS[p].role, 0 >>]

\* a ranking cut to three roles in which two roles of equal, non-zero score
\* are listed and a third role of the same score is cut off
C15_Witness ==
    /\ pc = "ranked"
    /\ top_k = DEFAULT_TOP_K
    /\ feature_vector = Flagged({"Python"})
    /\ top_roles = << << "Backend Developer", 833 >>, << "Python Developer", 833 >>,
                      << "Data Scientist", 583 >> >>
    /\ 583 \in PossibleScores("ML Engineer", feature_vector)

\* skills + internship + projects + (github or leetcode), in hundredths
WeightSum(weights) ==
    WeightOf(weights, "skills") + WeightOf(weights, "internship")
        + WeightOf(weights, "projects")
        + (IF "github" \in DOMAIN weights THEN weights["github"]
                                          ELSE WeightOf(weights, "leetcode"))

\* C16 (as claimed): the category weights of every role in ROLE_DEFINITIONS
\* sum to 1.0, so a profile whose sub-scores are all 1.0 for a role gets the
\* same total, 100, for every role.
C16_WeightsSumToOne ==
    pc \in {"rank", "ranked"} =>
        \A i \in 1..Len(ROLE_DEFINITIONS) : WeightSum(ROLE_DEFINITIONS[i].weights) = 100

AfterCalibration == pc \in {"categorise", "rank", "ranked"}

\* C14: the displayed readiness score is ((raw - 6.0) / (80.0 - 6.0)) * 100
\* clamped to 0..100 and rounded to 2 decimals: raw 6.0 gives 0.0, raw 80.0
\* gives 100.0, raw 43.0 gives 50.0, every raw score below 6.0 gives 0, every
\* raw score above 80.0 gives 100, and the score always lies in 0..100.
C14_ReadinessIsClampedCalibration ==
    AfterCalibration =>
        /\ readiness \in 0..10000
        /\ raw_score = 600 => readiness = 0
        /\ raw_score = 8000 => readiness = 10000
        /\ raw_score = 4300 => readiness = 5000
        /\ raw_score < 600 => readiness = 0
        /\ raw_score > 8000 => readiness = 10000
        /\ raw_score \in 600..8000 =>
              \* within half a hundredth of (raw - 6.0) / 74.0 * 100
              LET exact == (raw_score - 600) * 10000
                  shown == readiness * 7400
              IN  2 * shown - 7400 <= 2 * exact /\ 2 * exact <= 2 * shown + 7400

\* a raw score below MODEL_MIN displayed as 0, and the analysis completed
C14_Witness ==
    /\ pc = "ranked"
    /\ raw_score = 500
    /\ readiness = 0
    /\ category = "Needs Improvement"

\* C18: the readiness category is a function of the rounded display score
\* only: "Placement Ready" iff score >= 75, "Almost Ready" iff
\* 50 <= score < 75, "Needs Improvement" iff score < 50; every analysis
\* result has exactly one of the three.
C18_CategoryFromRoundedScore ==
    pc \in {"rank", "ranked"} =>
        /\ category \in {"Placement Ready", "Almost Ready", "Needs Improvement"}
        /\ category = "Placement Ready" <=> readiness >= 7500
        /\ category = "Almost Ready" <=> (5000 <= readiness /\ readiness < 7500)
        /\ category = "Needs Improvement" <=> readiness < 5000

\* a display score of exactly 75.0, reached from a raw score of 61.5
C18_Witness ==
    /\ pc = "ranked"
    /\ raw_score = 6150
    /\ readiness = 7500
    /\ category = "Placement Ready"

\* the call just finished had the arguments of the call before it, and the
\* services answered it the same way
SameCallAsBefore ==
    /\ history /= << >>
    /\ resume_text = history[1].resume_text
    /\ github_username = history[1].github_username
    /\ leetcode_username = history[1].leetcode_username
    /\ github_account = history[1].github_account
    /\ requests = history[1].requests
    /\ leetcode_features = history[1].leetcode_features

\* C11: no hidden state between requests.  A call with the arguments of the
\* call before it, answered by the services in the same way, ends the same
\* way and returns the same vector, whatever calls came earlier; the resume
\* analyzer gives the same features for the same text; and a call without
\* resume text starts its merge from the all-zero vector, whatever the call
\* before it left behind.
C11_NoHiddenStateBetweenRequests ==
    /\ (pc = "done" /\ history /= << >> /\ resume_text = history[1].resume_text) =>
           resume_features = history[1].resume_features
    /\ (pc = "done" /\ SameCallAsBefore) =>
           /\ outcome = history[1].outcome
           /\ outcome = "returned" => feature_vector = history[1].feature_vector
    /\ (pc = "github" /\ resume_text = "") =>
           /\ resume_features = initialize_feature_vector
           /\ feature_vector = initialize_feature_vector

\* the same profile analysed twice in a row, GitHub answering both times
C11_Witness ==
    /\ pc = "done"
    /\ SameCallAsBefore
    /\ outcome = "returned"
    /\ github_username /= ""
    /\ resume_text /= ""
    /\ Len(requests) >= 3
    /\ \A i \in 1..Len(requests) : requests[i].result = "ok"
    /\ IntOf(feature_vector["github_total_repos"]) = 2

\* the first n pages of the repository listing of an account, joined
RECURSIVE ListedRepos(_, _)
ListedRepos(account, n) ==
    IF n = 0 THEN << >> ELSE ListedRepos(account, n - 1) \o ServePage(account, n)

\* the commits counted for repos[i..], their lookups being lookups[k..]; a
\* repository without a full name is not looked up
RECURSIVE CountedCommits(_, _, _, _)
CountedCommits(repos, i, lookups, k) ==
    IF i > Len(repos) THEN 0
    ELSE IF repos[i].full_name = "" THEN CountedCommits(repos, i + 1, lookups, k)
    ELSE _fetch_repo_commit_count(lookups[k].result = "ok",
                                  CommitsResponse(repos[i].commits))
             + CountedCommits(repos, i + 1, lookups, k + 1)

\* what extract_github_features returns, as a function of its argument, of
\* the account and of how GitHub answered each request
GithubFeaturesFor(username, account, log) ==
    LET IsListing(r) == r.api = "github.repos"
        IsLookup(r) == r.api = "github.commits"
        listing == SelectSeq(log, IsListing)
        lookups == SelectSeq(log, IsLookup)
        all_repos == ListedRepos(account, Len(listing))
        sorted_repos == TopRepos(SortedByPushed(all_repos))
        total_commits == Extrapolate(CountedCommits(sorted_repos, 1, lookups, 1),
                                     Len(sorted_repos), Len(all_repos))
    IN  IF UsernameMissing(username) THEN initialize_feature_vector
        ELSE IF \E i \in 1..Len(listing) : listing[i].result = "error"
             THEN initialize_feature_vector
        ELSE DictSet(DictSet(ClassifyAll(DictSet(initialize_feature_vector,
                                                 "github_total_repos",
                                                 PyInt(Len(all_repos))),
                                         all_repos, 1),
                             "github_total_commits", PyInt(total_commits)),
                     "open_source_contribution_score",
                     ContributionScore(all_repos, total_commits))

\* what extract_leetcode_features can return for its argument
LeetcodeFeaturesFor(username) ==
    IF UsernameMissing(username) THEN { initialize_feature_vector }
    ELSE { initialize_feature_vector }
           \cup { ParseLeetcode(resp) :
                     resp \in { r \in LeetcodeResponses(_clean_leetcode_username(username)) :
                                   r.kind = "matched" } }

\* C20 (as claimed): no merge happens before all three partial vectors are
\* available, so the vector being assembled is still all zeros until then.
C20_MergeOnlyAfterAllExtractors ==
    feature_vector /= initialize_feature_vector => Merged

\* C20 (amended): the extractors share no mutable state.  Each partial
\* vector depends only on the extractor's own argument and on what its own
\* service answered; once the three merges are done the assembled vector is
\* the fixed merge of the three partial vectors; and the validation runs
\* only after all three extractors have returned.  The resume features are
\* merged before the GitHub extractor is called.
C20_ExtractorsIndependent ==
    /\ GithubReturned =>
          github_features = GithubFeaturesFor(github_username, github_account, requests)
    /\ pc = "github" =>
          /\ resume_features = extract_resume_features(resume_text)
          /\ feature_vector = MergeResume(initialize_feature_vector, resume_features)
    /\ Merged =>
          /\ leetcode_features \in LeetcodeFeaturesFor(leetcode_username)
          /\ feature_vector =
                 MergeLeetcode(
                     MergeGithub(MergeResume(initialize_feature_vector, resume_features),
                                 github_features),
                     leetcode_features)
    /\ outcome \in {"returned", "ValueError"} => pc = "done"

\* a vector assembled from three non-zero partial vectors, one commit lookup
\* having failed on the way
C20_Witness ==
    /\ outcome = "returned"
    /\ ~AllZero(resume_features)
    /\ IntOf(github_features["github_total_repos"]) >= 2
    /\ IntOf(leetcode_features["leetcode_total"]) > 0
    /\ FailedRequests({"github.commits"}) /= {}
    /\ FailedRequests({"github.repos"}) = {}

\* whether hint pattern number i is found in the name and description
HintFound(repo, i) == MatchesAny(_REPO_HINT_PATTERNS[i].alts, NameDesc(repo))

\* the bucket of a repository: the language table first; else, for an
\* ambiguous or absent language, the first hint found (AI, mobile, cloud,
\* security); else backend for an ambiguous language; else none ("")
Bucket(repo) ==
    IF repo.language \in DOMAIN _LANGUAGE_TO_CATEGORY
    THEN _LANGUAGE_TO_CATEGORY[repo.language]
    ELSE IF repo.language \notin _AMBIGUOUS_LANGUAGES \cup {NullLanguage} THEN ""
    ELSE IF HintFound(repo, 1) THEN "num_ai_projects"
    ELSE IF HintFound(repo, 2) THEN "num_mobile_projects"
    ELSE IF HintFound(repo, 3) THEN "num_cloud_projects"
    ELSE IF HintFound(repo, 4) THEN "num_security_projects"
    ELSE IF repo.language \in _AMBIGUOUS_LANGUAGES THEN "num_backend_projects"
    ELSE ""

\* the number of listed repositories of a bucket
InBucket(bucket) ==
    Cardinality({i \in 1..Len(gh.all_repos) : Bucket(gh.all_repos[i]) = bucket})

\* the repositories are listed and counted
Classified == pc = "gh_commits"

\* C21: extract_github_features counts each repository in at most one
\* project bucket: the bucket of its language in the static table; else, for
\* an ambiguous or absent language, the bucket of the first hint pattern
\* found in name and description (AI, then mobile, then cloud, then
\* security); else backend for an ambiguous language; else none.  The five
\* project counts therefore sum to at most github_total_repos.
C21_OneBucketPerRepository ==
    Classified =>
        /\ \A bucket \in ProjectColumns : gh.features[bucket] = PyInt(InBucket(bucket))
        /\ gh.features["github_total_repos"] = PyInt(Len(gh.all_repos))
        /\ InBucket("num_backend_projects") + InBucket("num_ai_projects")
              + InBucket("num_mobile_projects") + InBucket("num_cloud_projects")
              + InBucket("num_security_projects") <= Len(gh.all_repos)

\* seven repositories of which two are counted in no bucket, one is counted
\* by the table against a hint, and two by the first of two hints found
C21_Witness ==
    /\ Classified
    /\ Len(gh.all_repos) = 7
    /\ gh.features["num_backend_projects"] = PyInt(2)
    /\ gh.features["num_ai_projects"] = PyInt(1)
    /\ gh.features["num_mobile_projects"] = PyInt(0)
    /\ gh.features["num_cloud_projects"] = PyInt(2)
    /\ gh.features["num_security_projects"] = PyInt(0)
    /\ HintFound(gh.all_repos[1], 1) /\ HintFound(gh.all_repos[1], 2)
    /\ HintFound(gh.all_repos[2], 3) /\ HintFound(gh.all_repos[2], 4)
    /\ HintFound(gh.all_repos[3], 1)

\* the commit lookups of the call, in the order they were issued
CommitLookups ==
    LET IsLookup(r) == r.api = "github.commits" IN SelectSeq(requests, IsLookup)

\* the sum of the counts the commit lookups of the call gave
SampledCommits ==
    CountedCommits(TopRepos(SortedByPushed(gh.all_repos)), 1, CommitLookups, 1)

\* extract_github_features has returned after a listing without error
GithubListed ==
    /\ pc = "leetcode"
    /\ RequestsTo({"github.repos"}) /= {}
    /\ FailedRequests({"github.repos"}) = {}

\* C22 (as claimed): at most 10 commit lookups are issued, for the most
\* recently pushed repositories; github_total_commits is the sum of the
\* looked-up counts for 10 or fewer repositories and
\* floor((sum / 10) x number of repositories) for more than 10, which is
\* never smaller than the sum.
C22_CommitsSampledAndExtrapolated ==
    GithubListed =>
        LET total == IntOf(github_features["github_total_commits"])
            n == Len(gh.all_repos)
        IN  /\ Len(CommitLookups) <= 10
            /\ \A k \in 1..Len(CommitLookups) :
                  \E i \in 1..Len(gh.sorted_repos) :
                      CommitLookups[k].arg = gh.sorted_repos[i].full_name
            /\ \A i \in 1..Len(gh.sorted_repos), j \in 1..Len(gh.all_repos) :
                  gh.sorted_repos[i].pushed_at < gh.all_repos[j].pushed_at =>
                      \E m \in 1..Len(gh.sorted_repos) : gh.sorted_repos[m] = gh.all_repos[j]
            /\ total = IF n <= 10 THEN SampledCommits ELSE (SampledCommits * n) \div 10
            /\ total >= SampledCommits

\* what LeetCode answered in this call: the answers of the requests sent
LeetcodeAnswers ==
    { requests[i].answer : i \in RequestsTo({"leetcode.graphql"}) }

\* the contest rating an answer reports, as a whole number; 0 without one
ReportedRating(answer) ==
    IF answer.userContestRanking = PyNone THEN 0
    ELSE IF answer.userContestRanking.rating = PyNone THEN 0
    ELSE answer.userContestRanking.rating.twice \div 2

LeetcodeFieldsOk(features) ==
    /\ \A key \in LeetcodeColumns : features[key].int /\ features[key].twice >= 0
    /\ IntOf(features["leetcode_total"])
          = IntOf(features["leetcode_easy"]) + IntOf(features["leetcode_medium"])
                + IntOf(features["leetcode_hard"])
    /\ \A answer \in LeetcodeAnswers :
          /\ answer.kind = "matched" =>
                IntOf(features["leetcode_contest_rating"]) = ReportedRating(answer)
          /\ answer.kind \in {"unmatched", "error"} =>
                \A key \in LeetcodeColumns : features[key] = PyInt(0)
    /\ LeetcodeAnswers = {} => \A key \in LeetcodeColumns : features[key] = PyInt(0)

\* C23: in every vector returned by extract_leetcode_features and by
\* build_complete_feature_vector, leetcode_total = leetcode_easy +
\* leetcode_medium + leetcode_hard; leetcode_contest_rating is the integer
\* part of the reported rating when there is one and 0 otherwise; and when
\* LeetCode reports no matched user all five LeetCode fields are 0.
C23_LeetcodeFieldsConsistent ==
    /\ pc = "validate" => LeetcodeFieldsOk(leetcode_features)
    /\ outcome = "returned" => LeetcodeFieldsOk(feature_vector)

\* a matched user with 3 + 2 + 1 solved problems and a rating of 1500.5
C23_Witness ==
    /\ outcome = "returned"
    /\ \E answer \in LeetcodeAnswers :
          /\ answer.kind = "matched"
          /\ answer.userContestRanking /= PyNone
          /\ answer.userContestRanking.rating = PyFloat(3001)
    /\ feature_vector["leetcode_total"] = PyInt(6)
    /\ feature_vector["leetcode_hard"] = PyInt(1)
    /\ feature_vector["leetcode_contest_rating"] = PyInt(1500)

\* the "intern" tokens and the "experience" tokens of the lower-cased text
InternTokens == FindIter(InternAnchor, Lower(resume_text))

ExperienceTokens == FindIter(ExperienceAnchor, Lower(resume_text))

\* a keyword of the domain lies in the window around the i-th "intern" token
InInternWindow(domain, i) ==
    LET lower_text == Lower(resume_text)
        idx == InternTokens[i].start
    IN  MatchesAny(domain.patterns,
                   Slice(lower_text, Max2(0, idx - 100), Min2(Len(lower_text), idx + 100)))

\* a keyword of the domain lies in the window after the i-th "experience" token
InExperienceWindow(domain, i) ==
    LET lower_text == Lower(resume_text)
        from == ExperienceTokens[i].end
    IN  MatchesAny(domain.patterns,
                   Slice(lower_text, from, Min2(Len(lower_text), from + 500)))

WithProjects(field, count) ==
    [key \in DOMAIN feature_vector |->
        IF key = field THEN PyInt(count)
        ELSE IF key \in ProjectColumns THEN PyInt(0) ELSE feature_vector[key]]

\* C25 (as claimed): for every role whose projects weight is positive there
\* is a project-count field such that raising it from 0 to 4, in a profile
\* without other projects, raises the role's score by the full projects
\* weight x 100, and raising it beyond 4 changes nothing.
C25_ProjectsSaturateAtFour ==
    pc \in {"rank", "ranked"} =>
        \A i \in 1..Len(ROLE_DEFINITIONS) :
            LET config == ROLE_DEFINITIONS[i] IN
            WeightOf(config.weights, "projects") > 0 =>
                \E field \in ProjectColumns :
                    /\ ScoreTimes600(config, WithProjects(field, 4))
                          - ScoreTimes600(config, WithProjects(field, 0))
                              = 600 * WeightOf(config.weights, "projects")
                    /\ \A count \in 5..PROJECT_CAP :
                          ScoreTimes600(config, WithProjects(field, count))
                              = ScoreTimes600(config, WithProjects(field, 4))

\* the service a request goes to
SourceOf(request) == IF request.api = "leetcode.graphql" THEN "LeetCode" ELSE "GitHub"

\* the listing names every repository once
DistinctRepositories ==
    \A i, j \in 1..Len(gh.all_repos) :
        gh.all_repos[i].full_name = gh.all_repos[j].full_name => i = j

UnparseableUpload == upload.filename /= "" /\ ParseFails(upload)

\* C27 (as claimed): an unparseable uploaded document is treated as empty
\* resume text and is never an error: in analyze_full_profile and in
\* update_profile the pipeline still runs, on the empty text, and the resume
\* features of the result are all zero.
C27_UnparseableUploadIsEmptyText ==
    (UnparseableUpload /\ pc /= "upload") =>
        /\ outcome /= "HTTP 400"
        /\ resume_text = ""
        /\ pc /= "resume" => AllZero(resume_features)

-----------------------------------------------------------------------------
\* C28: for every vector of non-negative integers, however large its
\* counts, every score rank_roles computes is between 0 and 100: each of
\* the four sub-scores is at most 1.0 before it is weighted, so the score
\* of every role, and every score listed, is in 0 .. 100.00.
AboveEveryCap ==
    /\ Get(feature_vector, "github_total_commits") > 300
    /\ Get(feature_vector, "leetcode_medium") > 100
    /\ Get(feature_vector, "num_backend_projects") > 4
    /\ Get(feature_vector, "internship_backend") > 1

C28_ScoresWithinZeroAndHundred ==
    pc = "ranked" =>
        /\ \A p \in 1..Len(top_roles) : top_roles[p][2] \in 0..10000
        /\ \A i \in 1..Len(ROLE_DEFINITIONS) :
              LET config == ROLE_DEFINITIONS[i] IN
              /\ skill_score(config, feature_vector) \in 0..600
              /\ intern_score(config.role, feature_vector) \in 0..600
              /\ proj_score(config.role, feature_vector) \in 0..600
              /\ ScoreTimes600(config, feature_vector) \in 0..60000

C28_Witness ==
    /\ pc = "ranked"
    /\ AboveEveryCap
    /\ Len(top_roles) = Len(ROLE_DEFINITIONS)
    /\ top_roles[1][2] = 10000

-----------------------------------------------------------------------------
\* C29: extract_github_features and extract_leetcode_features send a
\* request only with a non-empty cleaned username: whatever the raw input,
\* slashes only or a bare URL prefix included, no request of the log has the
\* empty string as its username, and an input that cleans to the empty
\* string leaves the log as it was.
EmptyUsernameRequests ==
    { r \in 1..Len(requests) : requests[r].arg = "" }

C29_NoRequestWithEmptyUsername ==
    /\ EmptyUsernameRequests = {}
    /\ (pc = "done" /\ _clean_github_username(github_username) = ""
             /\ _clean_leetcode_username(leetcode_username) = "")
           => requests = << >>

-----------------------------------------------------------------------------
\* C30: every skill in the required list of every role of ROLE_DEFINITIONS
\* is one of the FEATURE_COLUMNS names, so a vector over the feature
\* columns can match each required skill of each role.
UnknownSkills(config) ==
    { config.required[j] : j \in 1..Len(config.required) } \ Columns

C30_RequiredSkillsAreColumns ==
    pc = "ranked" =>
        \A i \in 1..Len(ROLE_DEFINITIONS) : UnknownSkills(ROLE_DEFINITIONS[i]) = {}

====
